---- MODULE Spec2Model ----
(***************************************************************************)
(* A model of the octobrain memory store (src/src/memory/store.rs and      *)
(* src/src/memory/types.rs): the memories and memory_relationships tables, *)
(* the CRUD operations on them, filter evaluation and the vector, keyword  *)
(* and hybrid searches; and of the JSON-RPC loop of the MCP server         *)
(* (src/src/mcp/server.rs).                                                *)
(*                                                                         *)
(* Conventions.                                                            *)
(*  - A Rust String is a sequence of one-character strings, <<"a","b">>.   *)
(*  - Option<T> is a sequence of length at most one: None is <<>>, Some(v) *)
(*    is <<v>>.                                                            *)
(*  - An f32 is a fixed-point integer: the real value times Scale.         *)
(*  - A DateTime<Utc> is an integer number of clock ticks, TicksPerDay of  *)
(*    them to a day.                                                       *)
(***************************************************************************)
EXTENDS Integers, Sequences, FiniteSets, TLC

VARIABLES
    memories,       \* the rows of the "memories" table, in append order
    relationships,  \* the rows of the "memory_relationships" table
    now,            \* the wall clock, Utc::now()
    config,         \* MemoryConfig and the hybrid search configuration
    last,           \* the last operation: its name, arguments and result
    stdin,          \* the lines the MCP server has still to read
    stdout,         \* the responses the MCP server has written
    tasks,          \* the calls in flight: each one's position and locals
    server          \* McpServer.memory: the provider slot and its mutex

vars == <<memories, relationships, now, config, last, stdin, stdout, tasks, server>>

(***************************************************************************)
(* Numbers and options                                                     *)
(***************************************************************************)
Scale == 600

TicksPerDay == 2

None == <<>>

Some(v) == <<v>>

IsSome(o) == Len(o) > 0

Unwrap(o) == o[1]

UnwrapOr(o, d) == IF IsSome(o) THEN o[1] ELSE d

\* No call is in flight.
NoTasks == <<>>

\* McpServer::new: tokio::sync::Mutex::new(None), the mutex free and no
\* MemoryProvider built yet.
NoProvider == [memory |-> None, lock |-> None, built |-> 0]

Min2(a, b) == IF a <= b THEN a ELSE b

Max2(a, b) == IF a >= b THEN a ELSE b

Contains(seq, x) == \E i \in 1..Len(seq) : seq[i] = x

Range(seq) == {seq[i] : i \in 1..Len(seq)}

(***************************************************************************)
(* Bounds of the model                                                     *)
(***************************************************************************)
MaxRows == 2

MaxRels == 1

MaxNow == 1

(***************************************************************************)
(* The filter predicates the store hands to the table engine.  The store   *)
(* builds them with format!, interpolating the value between two quote     *)
(* characters.  A predicate is modelled as the sequence of its characters, *)
(* with each fixed fragment of a format string as one element.  The table  *)
(* engine reads it as SQL: inside a string literal two adjacent quotes are *)
(* one quote character, a lone quote ends the literal, and after a literal *)
(* only the end of the text or an OR clause may follow.                    *)
(***************************************************************************)
Quote == "'"

ColId == "id = "

ColSource == "source_id = "

OrColTarget == " OR target_id = "

FirstColumns == {ColId, ColSource}

ColumnOf(fragment) ==
    CASE fragment = ColId -> "id"
      [] fragment = ColSource -> "source_id"
      [] fragment = OrColTarget -> "target_id"

\* format!("id = '{}'", value)
FormatIdEq(value) == <<ColId, Quote>> \o value \o <<Quote>>

\* format!("source_id = '{}' OR target_id = '{}'", value, value)
FormatSourceOrTarget(value) ==
    <<ColSource, Quote>> \o value \o <<Quote, OrColTarget, Quote>> \o value \o <<Quote>>

\* The string literal whose opening quote is at text[i - 1]: the position
\* after its closing quote and its value; closed is FALSE when the text ends
\* inside the literal.
RECURSIVE ScanLiteral(_, _, _)
ScanLiteral(text, i, acc) ==
    IF i > Len(text) THEN [closed |-> FALSE, next |-> i, value |-> acc]
    ELSE IF text[i] # Quote THEN ScanLiteral(text, i + 1, Append(acc, text[i]))
    ELSE IF i < Len(text) /\ text[i + 1] = Quote
         THEN ScanLiteral(text, i + 2, Append(acc, Quote))
    ELSE [closed |-> TRUE, next |-> i + 1, value |-> acc]

\* The clauses "column = 'literal'" of a predicate, joined by OR, from
\* position i on; ok is FALSE on a syntax error.
RECURSIVE ParseClauses(_, _, _)
ParseClauses(text, i, clauses) ==
    IF i + 1 > Len(text) THEN [ok |-> FALSE, clauses |-> clauses]
    ELSE IF ~ (IF clauses = <<>> THEN text[i] \in FirstColumns ELSE text[i] = OrColTarget)
         THEN [ok |-> FALSE, clauses |-> clauses]
    ELSE IF text[i + 1] # Quote THEN [ok |-> FALSE, clauses |-> clauses]
    ELSE LET lit == ScanLiteral(text, i + 2, <<>>)
             got == Append(clauses, [col |-> ColumnOf(text[i]), value |-> lit.value])
         IN  IF ~ lit.closed THEN [ok |-> FALSE, clauses |-> clauses]
             ELSE IF lit.next > Len(text) THEN [ok |-> TRUE, clauses |-> got]
             ELSE ParseClauses(text, lit.next, got)

ParsePredicate(text) == ParseClauses(text, 1, <<>>)

\* Whether a row satisfies a parsed predicate (a disjunction of equalities).
RowMatches(pred, row) ==
    \E k \in 1..Len(pred.clauses) : row[pred.clauses[k].col] = pred.clauses[k].value

\* table.delete(predicate): Err on a predicate that does not parse.
TableDelete(table, text) ==
    LET pred == ParsePredicate(text)
    IN  IF pred.ok
        THEN [ok |-> TRUE, table |-> SelectSeq(table, LAMBDA row : ~ RowMatches(pred, row))]
        ELSE [ok |-> FALSE, table |-> table]

\* table.query().only_if(predicate): the matching rows in scan order.
TableQuery(table, text) ==
    LET pred == ParsePredicate(text)
    IN  IF pred.ok
        THEN [ok |-> TRUE, rows |-> SelectSeq(table, LAMBDA row : RowMatches(pred, row))]
        ELSE [ok |-> FALSE, rows |-> <<>>]

(***************************************************************************)
(* The memory model (types.rs)                                             *)
(***************************************************************************)
MemoryTypes ==
    {"Code", "Architecture", "BugFix", "Feature", "Documentation", "UserPreference",
     "Decision", "Learning", "Configuration", "Testing", "Performance", "Security",
     "Insight"}

\* impl Display for MemoryType
MemoryTypeToString(t) ==
    CASE t = "Code" -> "code"
      [] t = "Architecture" -> "architecture"
      [] t = "BugFix" -> "bug_fix"
      [] t = "Feature" -> "feature"
      [] t = "Documentation" -> "documentation"
      [] t = "UserPreference" -> "user_preference"
      [] t = "Decision" -> "decision"
      [] t = "Learning" -> "learning"
      [] t = "Configuration" -> "configuration"
      [] t = "Testing" -> "testing"
      [] t = "Performance" -> "performance"
      [] t = "Security" -> "security"
      [] t = "Insight" -> "insight"

\* impl From<String> for MemoryType (the strings the store writes are
\* lowercase already, so to_lowercase leaves them as they are)
MemoryTypeFromString(s) ==
    CASE s = "code" -> "Code"
      [] s = "architecture" -> "Architecture"
      [] s \in {"bug_fix", "bugfix", "bug"} -> "BugFix"
      [] s = "feature" -> "Feature"
      [] s \in {"documentation", "docs", "doc"} -> "Documentation"
      [] s \in {"user_preference", "preference", "user"} -> "UserPreference"
      [] s \in {"decision", "meeting", "planning"} -> "Decision"
      [] s \in {"learning", "tutorial", "education"} -> "Learning"
      [] s \in {"configuration", "config", "setup", "deployment"} -> "Configuration"
      [] s \in {"testing", "test", "qa"} -> "Testing"
      [] s \in {"performance", "perf", "optimization"} -> "Performance"
      [] s \in {"security", "vulnerability", "vuln"} -> "Security"
      [] OTHER -> "Insight"

\* MemoryDecay::new(base_importance), called at time t
MemoryDecayNew(base_importance, t) ==
    [base_importance |-> base_importance, access_count |-> 0,
     last_accessed |-> t, decay_rate |-> Scale]

\* impl Default for MemoryMetadata, evaluated at time t
MemoryMetadataDefault(t) ==
    [git_commit |-> None, related_files |-> <<>>, tags |-> <<>>,
     importance |-> Scale \div 2, confidence |-> Scale, created_by |-> None,
     custom_fields |-> {}, decay |-> MemoryDecayNew(Scale \div 2, t)]

(***************************************************************************)
(* Column encodings.  DateTime::to_rfc3339 prints as many fractional       *)
(* digits as the value has and parse_from_rfc3339 reads them all back;     *)
(* serde_json writes a Vec<String> as a JSON array and reads it back, and  *)
(* text that is not a JSON array reads as the default, an empty list.      *)
(***************************************************************************)
to_rfc3339(t) == [rfc3339 |-> t]

parse_from_rfc3339(s) == s.rfc3339

serde_json_to_string(list) == [json |-> list]

serde_json_from_str_or_default(s) == IF "json" \in DOMAIN s THEN s.json ELSE <<>>

\* The RecordBatch store_memory_with_embedding builds for one memory.
MemoryToRow(memory, embedding) ==
    [id |-> memory.id,
     memory_type |-> MemoryTypeToString(memory.memory_type),
     title |-> memory.title,
     content |-> memory.content,
     created_at |-> to_rfc3339(memory.created_at),
     updated_at |-> to_rfc3339(memory.updated_at),
     importance |-> memory.metadata.importance,
     confidence |-> memory.metadata.confidence,
     tags |-> serde_json_to_string(memory.metadata.tags),
     related_files |-> serde_json_to_string(memory.metadata.related_files),
     git_commit |-> memory.metadata.git_commit,
     embedding |-> embedding]

\* batch_to_memories, for one row, called at time t: the columns the table
\* has, and MemoryMetadata::default() for the rest.
RowToMemory(row, t) ==
    [id |-> row.id,
     memory_type |-> MemoryTypeFromString(row.memory_type),
     title |-> row.title,
     content |-> row.content,
     created_at |-> parse_from_rfc3339(row.created_at),
     updated_at |-> parse_from_rfc3339(row.updated_at),
     metadata |->
        [MemoryMetadataDefault(t) EXCEPT
            !.git_commit = row.git_commit,
            !.importance = row.importance,
            !.confidence = row.confidence,
            !.tags = serde_json_from_str_or_default(row.tags),
            !.related_files = serde_json_from_str_or_default(row.related_files)],
     relevance_score |-> None]

batch_to_memories(rows, t) == [i \in 1..Len(rows) |-> RowToMemory(rows[i], t)]

(***************************************************************************)
(* Relationships                                                           *)
(***************************************************************************)
\* impl Display for RelationshipType
RelationshipTypeToString(rt) ==
    CASE rt.kind = "RelatedTo" -> "related_to"
      [] rt.kind = "DependsOn" -> "depends_on"
      [] rt.kind = "Supersedes" -> "supersedes"
      [] rt.kind = "Similar" -> "similar"
      [] rt.kind = "Conflicts" -> "conflicts"
      [] rt.kind = "Implements" -> "implements"
      [] rt.kind = "Extends" -> "extends"
      [] rt.kind = "Custom" -> rt.name

\* The match on the relationship_type column in batch_to_relationships
RelationshipTypeFromString(s) ==
    IF s \in {"RelatedTo", "DependsOn", "Supersedes", "Similar", "Conflicts",
              "Implements", "Extends"}
    THEN [kind |-> s]
    ELSE [kind |-> "Custom", name |-> s]

RelationshipToRow(rel) ==
    [id |-> rel.id, source_id |-> rel.source_id, target_id |-> rel.target_id,
     relationship_type |-> RelationshipTypeToString(rel.relationship_type),
     strength |-> rel.strength, description |-> rel.description,
     created_at |-> to_rfc3339(rel.created_at)]

RowToRelationship(row) ==
    [id |-> row.id, source_id |-> row.source_id, target_id |-> row.target_id,
     relationship_type |-> RelationshipTypeFromString(row.relationship_type),
     strength |-> row.strength, description |-> row.description,
     created_at |-> parse_from_rfc3339(row.created_at)]

batch_to_relationships(rows) == [i \in 1..Len(rows) |-> RowToRelationship(rows[i])]

(***************************************************************************)
(* Store operations, as functions of the tables                            *)
(***************************************************************************)
\* FixedSizeListArray::new(field, vector_dim, values, None): the number of
\* lists in the array is the number of values divided by the list size,
\* rounded down; values left over belong to no list.
FixedSizeListLen(embedding, vector_dim) == Len(embedding) \div vector_dim

\* The list at row 0 of that array.
FixedSizeListValue(embedding, vector_dim) == SubSeq(embedding, 1, vector_dim)

\* Whether table.add accepts the batch: it does when the values are exactly
\* one list; with values left over the writer may accept or reject it.
AddOutcomes(embedding, vector_dim) ==
    IF Len(embedding) = vector_dim THEN {TRUE} ELSE {TRUE, FALSE}

\* store_memory_with_embedding: the record batch is built first
\* (RecordBatch::try_new fails when the embedding column does not have one
\* row, as the other columns do), then the delete, whose error is dropped by
\* .ok(), then the add, whose error is returned.
store_memory_with_embedding(table, memory, embedding, vector_dim, add_ok) ==
    IF FixedSizeListLen(embedding, vector_dim) # 1
    THEN [ok |-> FALSE, table |-> table]
    ELSE IF ~ add_ok
    THEN [ok |-> FALSE, table |-> TableDelete(table, FormatIdEq(memory.id)).table]
    ELSE [ok |-> TRUE,
          table |-> Append(TableDelete(table, FormatIdEq(memory.id)).table,
                           MemoryToRow(memory,
                                       FixedSizeListValue(embedding, vector_dim)))]

\* delete_memory: the delete on memories propagates its error; the delete
\* on memory_relationships drops it.
delete_memory(mem_table, rel_table, memory_id) ==
    LET del == TableDelete(mem_table, FormatIdEq(memory_id))
    IN  IF ~ del.ok
        THEN [ok |-> FALSE, memories |-> mem_table, relationships |-> rel_table]
        ELSE [ok |-> TRUE, memories |-> del.table,
              relationships |->
                  TableDelete(rel_table, FormatSourceOrTarget(memory_id)).table]

\* get_memory: every result the query with limit(1) can give.  The scan
\* order of the table is not fixed by the engine, so with several matching
\* rows any of them can be the one returned.
get_memory(table, memory_id, t) ==
    LET q == TableQuery(table, FormatIdEq(memory_id))
    IN  IF ~ q.ok THEN {[ok |-> FALSE, value |-> None]}
        ELSE IF q.rows = <<>> THEN {[ok |-> TRUE, value |-> None]}
        ELSE {[ok |-> TRUE, value |-> Some(RowToMemory(q.rows[i], t))] :
                 i \in 1..Len(q.rows)}

\* store_relationship: delete by id (error dropped), then append.
store_relationship(table, rel) ==
    Append(TableDelete(table, FormatIdEq(rel.id)).table, RelationshipToRow(rel))

\* get_memory_relationships
get_memory_relationships(table, memory_id) ==
    LET q == TableQuery(table, FormatSourceOrTarget(memory_id))
    IN  IF ~ q.ok THEN [ok |-> FALSE, value |-> <<>>]
        ELSE [ok |-> TRUE, value |-> batch_to_relationships(q.rows)]

(***************************************************************************)
(* Configuration                                                           *)
(***************************************************************************)
\* The dimension the store probed at creation (MemoryStore::new).
VectorDim == 2

\* MemoryConfig and SearchConfig.hybrid, with small values.
StoreConfig ==
    [vector_dim |-> VectorDim, max_search_results |-> 2, decay_enabled |-> TRUE,
     min_importance_threshold |-> Scale \div 20, recency_decay_days |-> 1]

Idle == [op |-> "none"]

(***************************************************************************)
(* The inputs of the store operations                                      *)
(***************************************************************************)
\* Ids: a plain one, one that is a lone quote, one that is two quotes.
StoreIds == {<<"a">>, <<"'">>, <<"'", "'">>}

\* Ids without a quote.
PlainIds == {<<"a">>, <<"c">>}

\* Memory::new(Code, title, content, None) made at time created, as it is
\* at time updated (after Memory::update of nothing, when they differ).
PlainMemory(id, created, updated) ==
    [id |-> id, memory_type |-> "Code", title |-> <<"r">>, content |-> <<"x">>,
     metadata |-> MemoryMetadataDefault(created),
     created_at |-> created, updated_at |-> updated, relevance_score |-> None]

\* A memory whose caller filled the metadata in, with an importance above 1
\* and a confidence below 0.
RichMemory(id, created, updated) ==
    [id |-> id, memory_type |-> "BugFix", title |-> <<"R", " ", "x">>,
     content |-> <<"r", "!", "r">>,
     metadata |->
        [git_commit |-> Some(<<"c", "1">>), related_files |-> <<<<"f">>>>,
         tags |-> <<<<"r">>, <<"t">>>>, importance |-> (3 * Scale) \div 2,
         confidence |-> 0 - (Scale \div 10), created_by |-> Some(<<"u">>),
         custom_fields |-> {<<"k", "v">>},
         decay |-> [base_importance |-> Scale, access_count |-> 2,
                    last_accessed |-> created, decay_rate |-> Scale \div 2]],
     created_at |-> created, updated_at |-> updated, relevance_score |-> None]

\* A memory just made, or an older one with its metadata filled in.
StoreMemoryInputs(ids, t) ==
    UNION {{PlainMemory(id, t, t), RichMemory(id, 0, t)} : id \in ids}

\* What a caller of update_memory passes: a memory read from the store,
\* after Memory::update(Some(title), None, None) at time t.
UpdateMemoryInputs(table, t) ==
    {[RowToMemory(table[i], t) EXCEPT !.title = <<"x">>, !.updated_at = t] :
        i \in 1..Len(table)}

\* What the embedding provider can return: a vector of the store's
\* dimension, a shorter one, or a longer one.
StoreEmbeddings == {<<Scale, 0>>, <<Scale>>, <<Scale, 0, 0>>}

\* Relationships, with a strength inside and outside [0,1].
StoreRelationshipInputs(ids) ==
    {[id |-> <<"r">>, source_id |-> src, target_id |-> <<"a">>,
      relationship_type |-> ts[1], strength |-> ts[2], description |-> <<"d">>,
      created_at |-> 0] :
        src \in ids,
        ts \in {<<[kind |-> "RelatedTo"], Scale \div 2>>,
                <<[kind |-> "Custom", name |-> "auto_linked"], 2 * Scale>>}}

(***************************************************************************)
(* Actions of the store                                                    *)
(***************************************************************************)
\* store_memory(memory), the embedding provider answering with embedding.
StoreMemory(memory, embedding) ==
    \E add_ok \in AddOutcomes(embedding, config.vector_dim) :
        LET r == store_memory_with_embedding(memories, memory, embedding,
                                             config.vector_dim, add_ok)
        IN  /\ Len(r.table) <= MaxRows
            /\ memories' = r.table
            /\ last' = [op |-> "store_memory", memory |-> memory,
                        embedding |-> embedding, ok |-> r.ok]
            /\ UNCHANGED <<tasks, server, stdin, stdout, relationships, now, config>>

\* update_memory(memory) is store_memory(memory).
UpdateMemory(memory, embedding) ==
    \E add_ok \in AddOutcomes(embedding, config.vector_dim) :
        LET r == store_memory_with_embedding(memories, memory, embedding,
                                             config.vector_dim, add_ok)
        IN  /\ Len(r.table) <= MaxRows
            /\ memories' = r.table
            /\ last' = [op |-> "update_memory", memory |-> memory,
                        embedding |-> embedding, ok |-> r.ok]
            /\ UNCHANGED <<tasks, server, stdin, stdout, relationships, now, config>>

DeleteMemory(memory_id) ==
    LET r == delete_memory(memories, relationships, memory_id)
    IN  /\ memories' = r.memories
        /\ relationships' = r.relationships
        /\ last' = [op |-> "delete_memory", id |-> memory_id, ok |-> r.ok]
        /\ UNCHANGED <<tasks, server, stdin, stdout, now, config>>

GetMemory(memory_id) ==
    /\ \E r \in get_memory(memories, memory_id, now) :
          last' = [op |-> "get_memory", id |-> memory_id, ok |-> r.ok, value |-> r.value]
    /\ UNCHANGED <<tasks, server, stdin, stdout, memories, relationships, now, config>>

StoreRelationship(rel) ==
    LET t == store_relationship(relationships, rel)
    IN  /\ Len(t) <= MaxRels
        /\ relationships' = t
        /\ last' = [op |-> "store_relationship", relationship |-> rel, ok |-> TRUE]
        /\ UNCHANGED <<tasks, server, stdin, stdout, memories, now, config>>

GetMemoryRelationships(memory_id) ==
    LET r == get_memory_relationships(relationships, memory_id)
    IN  /\ last' = [op |-> "get_memory_relationships", id |-> memory_id,
                    ok |-> r.ok, value |-> r.value]
        /\ UNCHANGED <<tasks, server, stdin, stdout, memories, relationships, now, config>>

\* Time passes.
Tick ==
    /\ now < MaxNow
    /\ now' = now + 1
    /\ UNCHANGED <<tasks, server, stdin, stdout, memories, relationships, config, last>>

Init ==
    /\ memories = <<>>
    /\ relationships = <<>>
    /\ stdin = <<>>
    /\ stdout = <<>>
    /\ tasks = NoTasks
    /\ server = NoProvider
    /\ now = 0
    /\ config = StoreConfig
    /\ last = Idle

\* The store driven with ids from the set ids.
StoreNext(ids) ==
    \/ \E m \in StoreMemoryInputs(ids, now), e \in StoreEmbeddings : StoreMemory(m, e)
    \/ \E m \in UpdateMemoryInputs(memories, now), e \in StoreEmbeddings : UpdateMemory(m, e)
    \/ \E id \in ids : DeleteMemory(id)
    \/ \E id \in ids : GetMemory(id)
    \/ \E rel \in StoreRelationshipInputs(ids) : StoreRelationship(rel)
    \/ \E id \in ids : GetMemoryRelationships(id)
    \/ Tick

Next == StoreNext(StoreIds)

Spec == Init /\ [][Next]_vars

\* The store driven with ids that hold no quote.
NextPlain == StoreNext(PlainIds)

SpecPlain == Init /\ [][NextPlain]_vars

(***************************************************************************)
(* Properties of the store                                                 *)
(***************************************************************************)
IsWrite(l) == l.op \in {"store_memory", "update_memory"}

OtherRows(table, id) == SelectSeq(table, LAMBDA row : row.id # id)

UniqueIds(table) ==
    \A i, j \in 1..Len(table) : table[i].id = table[j].id => i = j

InUnit(x) == 0 <= x /\ x <= Scale

\* C1: after store_memory(m) succeeds, get_memory(m.id) returns a memory
\* equal to m in every field except relevance_score.
C1_StoreGetRoundTrip ==
    (last.op = "store_memory" /\ last.ok) =>
        \A r \in get_memory(memories, last.memory.id, now) :
            /\ r.ok
            /\ IsSome(r.value)
            /\ [Unwrap(r.value) EXCEPT !.relevance_score = None]
                  = [last.memory EXCEPT !.relevance_score = None]

\* C2: after delete_memory(id) returns Ok, get_memory(id) returns None and
\* no relationship row has id as its source_id or target_id.
C2_DeleteRemovesMemoryAndEdges ==
    (last.op = "delete_memory" /\ last.ok) =>
        /\ \A r \in get_memory(memories, last.id, now) : r.ok /\ r.value = None
        /\ \A i \in 1..Len(relationships) :
              /\ relationships[i].source_id # last.id
              /\ relationships[i].target_id # last.id

\* C3: after any sequence of store, update and delete calls the memories
\* table holds at most one row per id, get_memory(id) returns the version
\* the last successful store or update of that id wrote, and a write to one
\* id leaves the rows of the other ids as they were.
C3_UpsertStep ==
    /\ UniqueIds(memories')
    /\ (IsWrite(last') /\ last'.ok /\ last' # last) =>
          /\ \A r \in get_memory(memories', last'.memory.id, now') :
                r.ok /\ r.value = Some(RowToMemory(MemoryToRow(last'.memory, <<>>), now'))
          /\ OtherRows(memories', last'.memory.id) = OtherRows(memories, last'.memory.id)

C3_Upsert == [][C3_UpsertStep]_vars

\* C4: for any string s, also one with a quote in it, delete_memory(s)
\* removes only rows whose id is s and get_memory(s) returns only a row
\* whose id is s.
C4_QuotedStep ==
    /\ (last'.op = "delete_memory" /\ last' # last) =>
          OtherRows(memories', last'.id) = OtherRows(memories, last'.id)
    /\ (last'.op = "get_memory" /\ IsSome(last'.value)) =>
          Unwrap(last'.value).id = last'.id

C4_PredicateValuesQuoted == [][C4_QuotedStep]_vars

\* C5: every row of memories has importance and confidence in [0,1] and
\* every row of memory_relationships has strength in [0,1].
C5_StoredScoresInUnit ==
    /\ \A i \in 1..Len(memories) :
          InUnit(memories[i].importance) /\ InUnit(memories[i].confidence)
    /\ \A i \in 1..Len(relationships) : InUnit(relationships[i].strength)

(***************************************************************************)
(* Filter evaluation                                                       *)
(***************************************************************************)
\* impl Default for MemoryQuery
MemoryQueryDefault ==
    [query_text |-> None, memory_types |-> None, tags |-> None, related_files |-> None,
     git_commit |-> None, min_importance |-> None, min_confidence |-> None,
     created_after |-> None, created_before |-> None, limit |-> None,
     min_relevance |-> None, sort_by |-> None, sort_order |-> None]

\* matches_filters with the importance bound exclusive.
matches_filters_exclusive(memory, query) ==
    IF IsSome(query.memory_types)
       /\ ~ Contains(Unwrap(query.memory_types), memory.memory_type)
    THEN FALSE
    ELSE IF IsSome(query.tags)
       /\ ~ (\E i \in 1..Len(Unwrap(query.tags)) :
                Contains(memory.metadata.tags, Unwrap(query.tags)[i]))
    THEN FALSE
    ELSE IF IsSome(query.related_files)
       /\ ~ (\E i \in 1..Len(Unwrap(query.related_files)) :
                Contains(memory.metadata.related_files, Unwrap(query.related_files)[i]))
    THEN FALSE
    ELSE IF IsSome(query.git_commit) /\ memory.metadata.git_commit # query.git_commit
    THEN FALSE
    ELSE IF IsSome(query.min_importance)
       /\ memory.metadata.importance <= Unwrap(query.min_importance)
    THEN FALSE
    ELSE IF IsSome(query.min_confidence)
       /\ memory.metadata.confidence < Unwrap(query.min_confidence)
    THEN FALSE
    ELSE IF IsSome(query.created_after) /\ memory.created_at < Unwrap(query.created_after)
    THEN FALSE
    ELSE IF IsSome(query.created_before) /\ memory.created_at > Unwrap(query.created_before)
    THEN FALSE
    ELSE TRUE

\* matches_filters: the checks in the order of the code, each returning
\* false as soon as it fails.
matches_filters(memory, query) ==
    IF IsSome(query.memory_types)
       /\ ~ Contains(Unwrap(query.memory_types), memory.memory_type)
    THEN FALSE
    ELSE IF IsSome(query.tags)
       /\ ~ (\E i \in 1..Len(Unwrap(query.tags)) :
                Contains(memory.metadata.tags, Unwrap(query.tags)[i]))
    THEN FALSE
    ELSE IF IsSome(query.related_files)
       /\ ~ (\E i \in 1..Len(Unwrap(query.related_files)) :
                Contains(memory.metadata.related_files, Unwrap(query.related_files)[i]))
    THEN FALSE
    ELSE IF IsSome(query.git_commit) /\ memory.metadata.git_commit # query.git_commit
    THEN FALSE
    ELSE IF IsSome(query.min_importance)
       /\ memory.metadata.importance < Unwrap(query.min_importance)
    THEN FALSE
    ELSE IF IsSome(query.min_confidence)
       /\ memory.metadata.confidence < Unwrap(query.min_confidence)
    THEN FALSE
    ELSE IF IsSome(query.created_after) /\ memory.created_at < Unwrap(query.created_after)
    THEN FALSE
    ELSE IF IsSome(query.created_before) /\ memory.created_at > Unwrap(query.created_before)
    THEN FALSE
    ELSE TRUE

(***************************************************************************)
(* matches_filters on its own: a memory and a query from bounded sets      *)
(***************************************************************************)
FilterMemories ==
    {[id |-> <<"a">>, memory_type |-> mt, title |-> <<"r">>, content |-> <<"x">>,
      metadata |-> [MemoryMetadataDefault(0) EXCEPT
                      !.tags = tg, !.related_files = fl, !.git_commit = gc,
                      !.importance = imp, !.confidence = conf],
      created_at |-> ca, updated_at |-> ca, relevance_score |-> None] :
        mt \in {"Code", "BugFix"},
        tg \in {<<>>, <<<<"r">>, <<"t">>>>},
        fl \in {<<>>, <<<<"f">>>>},
        gc \in {None, Some(<<"c", "1">>)},
        imp \in {0, Scale \div 2},
        conf \in {Scale \div 2, Scale},
        ca \in {0, 1, 2}}

FilterQueries ==
    {[MemoryQueryDefault EXCEPT
        !.memory_types = mt, !.tags = tg, !.related_files = fl, !.git_commit = gc,
        !.min_importance = mi, !.min_confidence = mc,
        !.created_after = ca, !.created_before = cb] :
        mt \in {None, Some(<<>>), Some(<<"Security", "Code">>)},
        tg \in {None, Some(<<<<"z">>, <<"t">>>>), Some(<<<<"z">>>>)},
        fl \in {None, Some(<<<<"g">>, <<"f">>>>)},
        gc \in {None, Some(<<"c", "1">>), Some(<<"c", "2">>)},
        mi \in {None, Some(Scale \div 2)},
        mc \in {None, Some(Scale)},
        ca \in {None, Some(1)},
        cb \in {None, Some(1)}}

InitFilter ==
    /\ memories = <<>>
    /\ relationships = <<>>
    /\ stdin = <<>>
    /\ stdout = <<>>
    /\ tasks = NoTasks
    /\ server = NoProvider
    /\ now = 0
    /\ config = StoreConfig
    /\ \E memory \in FilterMemories, query \in FilterQueries :
          last = [op |-> "input", memory |-> memory, query |-> query]

MatchesFilters ==
    /\ last.op = "input"
    /\ last' = [op |-> "matches_filters", memory |-> last.memory, query |-> last.query,
                result |-> matches_filters(last.memory, last.query)]
    /\ UNCHANGED <<tasks, server, stdin, stdout, memories, relationships, now, config>>

NextFilter == MatchesFilters

SpecFilter == InitFilter /\ [][NextFilter]_vars

\* C10: matches_filters is true exactly when every filter that is set
\* holds: the type is one of memory_types, the tags and the related files
\* each share an element with the query's, git_commit is equal, importance
\* and confidence reach their minimum, and created_at lies in
\* [created_after, created_before]; an unset filter imposes nothing.
C10_MatchesFiltersIsConjunction ==
    last.op = "matches_filters" =>
        LET m == last.memory
            q == last.query
        IN  last.result <=>
              /\ q.memory_types # None => m.memory_type \in Range(q.memory_types[1])
              /\ q.tags # None => Range(q.tags[1]) \cap Range(m.metadata.tags) # {}
              /\ q.related_files # None =>
                    Range(q.related_files[1]) \cap Range(m.metadata.related_files) # {}
              /\ q.git_commit # None => m.metadata.git_commit = q.git_commit
              /\ q.min_importance # None => m.metadata.importance >= q.min_importance[1]
              /\ q.min_confidence # None => m.metadata.confidence >= q.min_confidence[1]
              /\ q.created_after # None => q.created_after[1] <= m.created_at
              /\ q.created_before # None => m.created_at <= q.created_before[1]

\* A memory that passes with every filter set, and one that a bound alone
\* rejects.
C10_Witness ==
    /\ last.op = "matches_filters"
    /\ \A f \in {"memory_types", "tags", "related_files", "git_commit", "min_importance",
                 "min_confidence", "created_after", "created_before"} :
          last.query[f] # None
    /\ last.result

(***************************************************************************)
(* Decay and recency (fixed point)                                         *)
(***************************************************************************)
\* Duration::num_days: whole days, rounded toward zero.
num_days(ticks) ==
    IF ticks >= 0 THEN ticks \div TicksPerDay ELSE 0 - ((0 - ticks) \div TicksPerDay)

\* e^(-k) for k = 0, 1, 2, ..., times Scale; 0 from k = 8 on.
ExpNegKnots == <<600, 221, 81, 30, 11, 4, 1, 1>>

ExpNegAt(k) == IF k + 1 <= Len(ExpNegKnots) THEN ExpNegKnots[k + 1] ELSE 0

\* f32::exp of -x for x >= 0: exact at whole x, interpolated between.
ExpNeg(x) ==
    LET k == x \div Scale
        frac == x - k * Scale
    IN  ExpNegAt(k) - ((ExpNegAt(k) - ExpNegAt(k + 1)) * frac) \div Scale

\* f32::exp: of a positive x through 1 / e^(-x), capped where e^(-x) is 0.
Exp(x) ==
    IF x <= 0 THEN ExpNeg(0 - x)
    ELSE IF ExpNeg(x) = 0 THEN Scale * Scale
    ELSE (Scale * Scale) \div ExpNeg(x)

\* f32::ln of n + 1 for an access count n, times Scale.
LnKnots == <<0, 416, 659, 832, 966>>

LnOfCountPlusOne(n) == IF n + 1 <= Len(LnKnots) THEN LnKnots[n + 1] ELSE LnKnots[Len(LnKnots)]

\* A max that keeps the value it is called on.
f32_max_keeping_self(x, y) == x

\* f32::max of two numbers.
f32_max(x, y) == Max2(x, y)

\* The exponent above which f32::exp gives +inf (it does from 88.73 on).
ExpOverflow == 89 * Scale

\* +inf: above every finite value of the model.
Infinity == Scale * Scale * Scale

\* MemoryDecay::calculate_current_importance, at time t.  When time_decay
\* is +inf the product is NaN if base_importance or access_boost is 0, -inf
\* if base_importance is below 0, else +inf; f32::max of NaN and
\* min_threshold is min_threshold.
calculate_current_importance(decay, min_threshold, t) ==
    LET days_since_access == num_days(t - decay.last_accessed)
        exponent == 0 - ((decay.decay_rate * days_since_access) \div 30)
        time_decay == Exp(exponent)
        access_boost == LnOfCountPlusOne(decay.access_count)
        current == (((decay.base_importance * time_decay) \div Scale) * access_boost) \div Scale
    IN  IF exponent > ExpOverflow
        THEN IF decay.base_importance > 0 /\ access_boost > 0
             THEN f32_max(Infinity, min_threshold) ELSE min_threshold
        ELSE f32_max(current, min_threshold)

\* Memory::get_current_importance
get_current_importance(memory, decay_enabled, min_threshold, t) ==
    IF decay_enabled
    THEN calculate_current_importance(memory.metadata.decay, min_threshold, t)
    ELSE memory.metadata.importance

\* f32::NAN: in no range of numbers.  It is held as a number below every
\* value of the model.
NaN == 0 - (2 * Infinity)

\* calculate_recency_score, at time t.  With recency_decay_days = 0 the
\* quotient days_old / 0.0 is NaN for 0 days and +inf for more, and the
\* exponential of -inf is 0.
calculate_recency_score(memory, recency_decay_days, t) ==
    LET days_old == num_days(t - memory.created_at)
    IN  IF days_old < 0 THEN Scale
        ELSE IF recency_decay_days = 0 THEN (IF days_old = 0 THEN NaN ELSE 0)
        ELSE ExpNeg((days_old * Scale) \div recency_decay_days)

(***************************************************************************)
(* Sorting and truncation                                                  *)
(***************************************************************************)
\* Vec::sort_by with a comparator that puts the larger key first: a stable
\* sort of items by keys[i], descending.
SortDescending(items, keys) ==
    LET n == Len(items)
        Rank(i) == 1 + Cardinality({j \in 1..n :
                          keys[j] > keys[i] \/ (keys[j] = keys[i] /\ j < i)})
    IN  [p \in 1..n |-> items[CHOOSE i \in 1..n : Rank(i) = p]]

\* Vec::truncate
Truncate(items, n) == SubSeq(items, 1, Min2(n, Len(items)))

(***************************************************************************)
(* Vector search                                                           *)
(***************************************************************************)
\* The embeddings of the model are unit vectors, for which the cosine is
\* the dot product.
Dot(a, b) == (a[1] * b[1] + a[2] * b[2]) \div Scale

CosineDistance(a, b) == Scale - Dot(a, b)

\* The k first of the rows, each with its _distance, nearest first.
NearestOf(scored, k) ==
    Truncate(SortDescending(scored, [i \in 1..Len(scored) |-> 0 - scored[i].distance]), k)

\* table.vector_search(q).distance_type(Cosine).limit(k) without an index:
\* the k rows nearest to q, nearest first, each with its _distance.
NearestRows(table, q, k) ==
    NearestOf([i \in 1..Len(table) |->
                  [row |-> table[i], distance |-> CosineDistance(table[i].embedding, q)]], k)

\* The limit without the cap at max_search_results.
VectorSearchLimitUncapped(query, cfg) == UnwrapOr(query.limit, cfg.max_search_results)

\* The limit vector_search works with.
VectorSearchLimit(query, cfg) ==
    Min2(UnwrapOr(query.limit, cfg.max_search_results), cfg.max_search_results)

\* The sort at the end of vector_search.
VectorSearchSort(results, query, cfg, t) ==
    IF IsSome(query.sort_by)
    THEN LET key(r) ==
                 IF Unwrap(query.sort_by) = "CreatedAt" THEN r.memory.created_at
                 ELSE get_current_importance(r.memory, cfg.decay_enabled,
                                             cfg.min_importance_threshold, t)
             sign == IF UnwrapOr(query.sort_order, "Descending") = "Ascending"
                     THEN 0 - 1 ELSE 1
         IN  SortDescending(results, [i \in 1..Len(results) |-> sign * key(results[i])])
    ELSE SortDescending(results, [i \in 1..Len(results) |-> results[i].relevance_score])

\* The semantic branch of vector_search: each row found becomes a memory
\* whose relevance is (1 - distance) * current importance.
SemanticResults(near, cfg, t) ==
    [i \in 1..Len(near) |->
        [memory |-> RowToMemory(near[i].row, t),
         relevance_score |->
            ((Scale - near[i].distance)
             * get_current_importance(RowToMemory(near[i].row, t), cfg.decay_enabled,
                                      cfg.min_importance_threshold, t)) \div Scale]]

\* The scan branch of vector_search: the relevance of a memory is its
\* current importance.
ScannedResults(table, cfg, t) ==
    [i \in 1..Len(table) |->
        [memory |-> RowToMemory(table[i], t),
         relevance_score |->
            get_current_importance(RowToMemory(table[i], t), cfg.decay_enabled,
                                   cfg.min_importance_threshold, t)]]

\* The results vector_search keeps: those passing the filters with a
\* relevance of at least min_relevance.
KeptResults(found, query) ==
    SelectSeq(found, LAMBDA r :
        /\ matches_filters(r.memory, query)
        /\ r.relevance_score >= UnwrapOr(query.min_relevance, 0))

\* vector_search, at time t, the embedding provider answering the query
\* text with query_embedding.
vector_search(table, query, cfg, t, query_embedding) ==
    IF IsSome(query.query_text) /\ Len(query_embedding) # cfg.vector_dim
    THEN [ok |-> FALSE, results |-> <<>>]
    ELSE IF IsSome(query.query_text)
    THEN [ok |-> TRUE,
          results |-> Truncate(
              VectorSearchSort(
                  KeptResults(
                      SemanticResults(
                          NearestRows(table, query_embedding,
                                      VectorSearchLimit(query, cfg) * 2), cfg, t),
                      query),
                  query, cfg, t),
              VectorSearchLimit(query, cfg))]
    ELSE [ok |-> TRUE,
          results |-> Truncate(
              VectorSearchSort(KeptResults(ScannedResults(table, cfg, t), query),
                               query, cfg, t),
              VectorSearchLimit(query, cfg))]

(***************************************************************************)
(* Keyword search                                                          *)
(***************************************************************************)
UpperLetters ==
    <<"A", "B", "C", "D", "E", "F", "G", "H", "I", "J", "K", "L", "M",
      "N", "O", "P", "Q", "R", "S", "T", "U", "V", "W", "X", "Y", "Z">>

LowerLetters ==
    <<"a", "b", "c", "d", "e", "f", "g", "h", "i", "j", "k", "l", "m",
      "n", "o", "p", "q", "r", "s", "t", "u", "v", "w", "x", "y", "z">>

Digits == {"0", "1", "2", "3", "4", "5", "6", "7", "8", "9"}

\* str::to_lowercase, on the ASCII characters of the model
to_lowercase(text) ==
    [i \in 1..Len(text) |->
        IF \E k \in 1..Len(UpperLetters) : UpperLetters[k] = text[i]
        THEN LowerLetters[CHOOSE k \in 1..Len(UpperLetters) : UpperLetters[k] = text[i]]
        ELSE text[i]]

\* A test of word characters that leaves the underscore out.
IsAlphanumeric(c) == c \in Range(UpperLetters) \cup Range(LowerLetters) \cup Digits

\* c.is_alphanumeric() || c == '_'
IsWordChar(c) == c \in Range(UpperLetters) \cup Range(LowerLetters) \cup Digits \cup {"_"}

\* split at every character that is not a word character, dropping the
\* empty pieces
RECURSIVE SplitWords(_, _, _, _)
SplitWords(text, i, word, words) ==
    IF i > Len(text) THEN (IF word = <<>> THEN words ELSE Append(words, word))
    ELSE IF IsWordChar(text[i]) THEN SplitWords(text, i + 1, Append(word, text[i]), words)
    ELSE SplitWords(text, i + 1, <<>>, IF word = <<>> THEN words ELSE Append(words, word))

tokenize(text) == SplitWords(to_lowercase(text), 1, <<>>, <<>>)

calculate_tf(keyword, text) ==
    LET tokens == tokenize(text)
        keyword_lower == to_lowercase(keyword)
        count == Cardinality({i \in 1..Len(tokens) : tokens[i] = keyword_lower})
    IN  IF tokens = <<>> THEN 0 ELSE (count * Scale) \div Len(tokens)

RECURSIVE SumOfTf(_, _, _, _)
SumOfTf(keywords, text, field_weight, i) ==
    IF i > Len(keywords) THEN 0
    ELSE calculate_tf(keywords[i], text) * field_weight
         + SumOfTf(keywords, text, field_weight, i + 1)

score_field(keywords, text, field_weight) ==
    IF keywords = <<>> \/ text = <<>> THEN 0
    ELSE SumOfTf(keywords, text, field_weight, 1)

\* tags.join(" ")
RECURSIVE JoinWithSpace(_, _)
JoinWithSpace(strings, i) ==
    IF i > Len(strings) THEN <<>>
    ELSE IF i = Len(strings) THEN strings[i]
    ELSE strings[i] \o <<" ">> \o JoinWithSpace(strings, i + 1)

\* The score with every field weighing the same.
KeywordScoreUnweighted(keywords, memory) ==
    score_field(keywords, memory.title, 1)
    + score_field(keywords, memory.content, 1)
    + score_field(keywords, JoinWithSpace(memory.metadata.tags, 1), 1)

\* The score keyword_search gives a memory before normalisation.
KeywordScore(keywords, memory) ==
    score_field(keywords, memory.title, 3)
    + score_field(keywords, memory.content, 1)
    + score_field(keywords, JoinWithSpace(memory.metadata.tags, 1), 2)

RECURSIVE MaxScore(_, _)
MaxScore(scored, i) ==
    IF i > Len(scored) THEN 0 ELSE Max2(scored[i].score, MaxScore(scored, i + 1))

\* The memories read, each with its keyword score.
ScoredMemories(memories_read, keywords) ==
    [i \in 1..Len(memories_read) |->
        [memory |-> memories_read[i], score |-> KeywordScore(keywords, memories_read[i])]]

\* Each score divided by max_score, when that is positive.
NormalizeScores(matched, max_score) ==
    [i \in 1..Len(matched) |->
        [memory |-> matched[i].memory,
         score |-> IF max_score > 0 THEN (matched[i].score * Scale) \div max_score
                   ELSE matched[i].score]]

\* results.sort_by, the larger score first
SortByScore(results) ==
    SortDescending(results, [i \in 1..Len(results) |-> results[i].score])

\* The matches normalised and sorted, best first.
RankMatches(matched) == SortByScore(NormalizeScores(matched, MaxScore(matched, 1)))

\* keyword_search, at time t: the memories that pass the filters and match
\* a keyword, each with its score divided by the largest, best first.
keyword_search(table, keywords, filters, t) ==
    IF keywords = <<>> THEN [ok |-> TRUE, results |-> <<>>]
    ELSE [ok |-> TRUE,
          results |-> RankMatches(
              SelectSeq(ScoredMemories(batch_to_memories(table, t), keywords),
                        LAMBDA r : matches_filters(r.memory, filters) /\ r.score > 0))]

(***************************************************************************)
(* Hybrid search                                                           *)
(***************************************************************************)
\* impl Default for HybridSearchQuery: weights 0.6, 0.2, 0.1, 0.1
HybridSearchQueryDefault ==
    [vector_query |-> None, keywords |-> None,
     vector_weight |-> (6 * Scale) \div 10, keyword_weight |-> (2 * Scale) \div 10,
     recency_weight |-> Scale \div 10, importance_weight |-> Scale \div 10,
     filters |-> MemoryQueryDefault]

\* validate without the check that a signal is given.
validate_weights_only(query) ==
    IF query.vector_weight < 0 \/ query.vector_weight > Scale
    THEN [ok |-> FALSE, error |-> "vector_weight"]
    ELSE IF query.keyword_weight < 0 \/ query.keyword_weight > Scale
    THEN [ok |-> FALSE, error |-> "keyword_weight"]
    ELSE IF query.recency_weight < 0 \/ query.recency_weight > Scale
    THEN [ok |-> FALSE, error |-> "recency_weight"]
    ELSE IF query.importance_weight < 0 \/ query.importance_weight > Scale
    THEN [ok |-> FALSE, error |-> "importance_weight"]
    ELSE [ok |-> TRUE, error |-> "none"]

\* HybridSearchQuery::validate
validate(query) ==
    IF query.vector_weight < 0 \/ query.vector_weight > Scale
    THEN [ok |-> FALSE, error |-> "vector_weight"]
    ELSE IF query.keyword_weight < 0 \/ query.keyword_weight > Scale
    THEN [ok |-> FALSE, error |-> "keyword_weight"]
    ELSE IF query.recency_weight < 0 \/ query.recency_weight > Scale
    THEN [ok |-> FALSE, error |-> "recency_weight"]
    ELSE IF query.importance_weight < 0 \/ query.importance_weight > Scale
    THEN [ok |-> FALSE, error |-> "importance_weight"]
    ELSE IF query.vector_query = None /\ query.keywords = None
    THEN [ok |-> FALSE, error |-> "no signal"]
    ELSE [ok |-> TRUE, error |-> "none"]

\* The candidates of hybrid_search: a map from memory id to the memory and
\* its vector and keyword scores.
NoCandidates == [id \in {} |-> 0]

\* candidates.insert(id, (memory, vec_score, 0.0, 0.0, 0.0))
InsertCandidate(candidates, memory, vec_score) ==
    (memory.id :> [memory |-> memory, vec |-> vec_score, kw |-> 0]) @@ candidates

RECURSIVE InsertVectorResults(_, _, _)
InsertVectorResults(candidates, results, i) ==
    IF i > Len(results) THEN candidates
    ELSE InsertVectorResults(
             InsertCandidate(candidates, results[i].memory, results[i].relevance_score),
             results, i + 1)

\* The keyword fold replacing the entry, which drops its vector score.
FoldKeywordResultReplacing(candidates, memory, kw_score) ==
    (memory.id :> [memory |-> memory, vec |-> 0, kw |-> kw_score]) @@ candidates

\* candidates.entry(id).and_modify(kw = kw_score).or_insert((memory, 0.0, kw_score, ..))
FoldKeywordResult(candidates, memory, kw_score) ==
    IF memory.id \in DOMAIN candidates
    THEN [candidates EXCEPT ![memory.id].kw = kw_score]
    ELSE (memory.id :> [memory |-> memory, vec |-> 0, kw |-> kw_score]) @@ candidates

RECURSIVE FoldKeywordResults(_, _, _)
FoldKeywordResults(candidates, results, i) ==
    IF i > Len(results) THEN candidates
    ELSE FoldKeywordResults(
             FoldKeywordResult(candidates, results[i].memory, results[i].score),
             results, i + 1)

\* The fallback taking every stored memory, filters or not.
FallbackCandidatesUnfiltered(table, filters, t) ==
    LET all == batch_to_memories(table, t)
    IN  InsertVectorResults(NoCandidates,
            [i \in 1..Len(all) |-> [memory |-> all[i], relevance_score |-> 0]], 1)

\* The fallback of hybrid_search: every stored memory that passes the filters.
FallbackCandidates(table, filters, t) ==
    LET passing == SelectSeq(batch_to_memories(table, t),
                             LAMBDA m : matches_filters(m, filters))
    IN  InsertVectorResults(NoCandidates,
            [i \in 1..Len(passing) |-> [memory |-> passing[i], relevance_score |-> 0]], 1)

\* The final score of a candidate, in units of 1 / Scale^2.
FinalScore(query, vec_score, kw_score, rec_score, imp_score) ==
    query.vector_weight * vec_score + query.keyword_weight * kw_score
    + query.recency_weight * rec_score + query.importance_weight * imp_score

\* Step 1 of hybrid_search: the candidates the two searches found.
FoundCandidates(vector_results, keyword_results) ==
    FoldKeywordResults(InsertVectorResults(NoCandidates, vector_results, 1),
                       keyword_results, 1)

\* Steps 2 and 3 for one candidate: its recency and importance scores and
\* its final score.
CombineScores(query, cfg, t, c) ==
    LET rec_score == calculate_recency_score(c.memory, cfg.recency_decay_days, t)
        imp_score == get_current_importance(c.memory, cfg.decay_enabled,
                                            cfg.min_importance_threshold, t)
    IN  [memory |-> c.memory,
         relevance_score |-> FinalScore(query, c.vec, c.kw, rec_score, imp_score),
         selection_reason |-> [vector |-> c.vec, keyword |-> c.kw,
                               recency |-> rec_score, importance |-> imp_score]]

\* Step 4: results.sort_by, the larger relevance_score first
SortByRelevance(results) ==
    SortDescending(results, [i \in 1..Len(results) |-> results[i].relevance_score])

\* Steps 2 to 5: the candidates, iterated in the order of the ids in order,
\* are scored, filtered by min_relevance, sorted and truncated.
RankCandidates(query, cfg, t, candidates, order) ==
    LET limit == UnwrapOr(query.filters.limit, cfg.max_search_results)
        min_relevance == UnwrapOr(query.filters.min_relevance, 0)
        iterated == SelectSeq(order, LAMBDA id : id \in DOMAIN candidates)
        combined == [i \in 1..Len(iterated) |->
                        CombineScores(query, cfg, t, candidates[iterated[i]])]
    IN  Truncate(
            SortByRelevance(
                SelectSeq(combined, LAMBDA r : r.relevance_score >= min_relevance * Scale)),
            limit)

\* hybrid_search after the two searches.
HybridSearchFound(table, query, cfg, t, order, found, reads) ==
    IF DOMAIN found = {}
    THEN [ok |-> TRUE, error |-> "none",
          results |-> RankCandidates(query, cfg, t,
                          FallbackCandidates(table, query.filters, t), order),
          table_reads |-> reads \o <<"all">>]
    ELSE [ok |-> TRUE, error |-> "none",
          results |-> RankCandidates(query, cfg, t, found, order),
          table_reads |-> reads]

\* hybrid_search after the vector search.
HybridSearchKeywords(table, query, cfg, t, order, vector_results, reads) ==
    IF ~ vector_results.ok
    THEN [ok |-> FALSE, error |-> "vector_search", results |-> <<>>, table_reads |-> reads]
    ELSE IF IsSome(query.keywords)
    THEN HybridSearchFound(table, query, cfg, t, order,
             FoundCandidates(vector_results.results,
                 keyword_search(table, Unwrap(query.keywords), query.filters, t).results),
             reads \o (IF Unwrap(query.keywords) = <<>> THEN <<>> ELSE <<"keyword">>))
    ELSE HybridSearchFound(table, query, cfg, t, order,
             FoundCandidates(vector_results.results, <<>>), reads)

\* hybrid_search, at time t; the embedding provider answers the vector query
\* with query_embedding, and the candidate map is iterated in the order of
\* the ids in order. relevance_score is in units of 1 / Scale^2,
\* table_reads lists the queries run on the table, and error names what
\* failed: the part of the query validate rejects, or the vector search.
hybrid_search(table, query, cfg, t, query_embedding, order) ==
    IF ~ validate(query).ok
    THEN [ok |-> FALSE, error |-> validate(query).error, results |-> <<>>,
          table_reads |-> <<>>]
    ELSE IF IsSome(query.vector_query)
    THEN HybridSearchKeywords(table, query, cfg, t, order,
             vector_search(table,
                 [query.filters EXCEPT
                     !.query_text = query.vector_query,
                     !.limit = Some(UnwrapOr(query.filters.limit,
                                             cfg.max_search_results) * 2)],
                 cfg, t, query_embedding),
             <<"vector">>)
    ELSE HybridSearchKeywords(table, query, cfg, t, order,
             [ok |-> TRUE, results |-> <<>>], <<>>)

(***************************************************************************)
(* The searches on their own: a store filled by earlier store_memory calls *)
(* and one search on it                                                    *)
(***************************************************************************)
\* The most rows the searched table has.
MaxSearchRows == 3

\* The ids of the stored memories, in the order they were stored.
SearchIds == <<<<"a">>, <<"c">>, <<"d">>, <<"e">>>>

\* The time of the search: two days after time 0.
SearchNow == 2 * TicksPerDay

\* What the embedding provider returned for the stored memories.
SearchEmbeddings == {<<Scale, 0>>, <<424, 424>>}

\* What it returns for a query text: a vector near the stored ones, one
\* opposite to them, or one of a wrong length.
QueryEmbeddings == {<<Scale, 0>>, <<0 - Scale, 0>>, <<Scale>>}

\* A memory two days old, of type Code and of importance 0.5, and a new one
\* of type BugFix, tagged r and of importance 1.
OldCode == [memory_type |-> "Code", created_at |-> 0, importance |-> Scale \div 2,
            tags |-> <<>>]

NewBugFix == [memory_type |-> "BugFix", created_at |-> SearchNow, importance |-> Scale,
              tags |-> << <<"r">> >>]

SearchMemory(id, title, meta) ==
    [id |-> id, memory_type |-> meta.memory_type, title |-> title, content |-> <<"x">>,
     metadata |-> [MemoryMetadataDefault(meta.created_at) EXCEPT
                      !.importance = meta.importance, !.tags = meta.tags],
     created_at |-> meta.created_at, updated_at |-> meta.created_at,
     relevance_score |-> None]

\* The tables with at most one row for each of the first n ids, the rows of
\* id k drawn from rows[k].
RECURSIVE SearchTablesUpTo(_, _)
SearchTablesUpTo(rows, n) ==
    IF n = 0 THEN {<<>>}
    ELSE LET shorter == SearchTablesUpTo(rows, n - 1)
         IN  shorter \cup {Append(t, r) : t \in shorter, r \in rows[n]}

SearchTables(rows) == SearchTablesUpTo(rows, Min2(MaxSearchRows, Len(SearchIds)))

SearchConfigs == {[StoreConfig EXCEPT !.decay_enabled = d] : d \in BOOLEAN}

VectorRows ==
    [k \in 1..Len(SearchIds) |->
        {MemoryToRow(SearchMemory(SearchIds[k], <<"r">>, meta), e) :
            meta \in {OldCode, NewBugFix}, e \in SearchEmbeddings}]

InitVector ==
    /\ memories \in SearchTables(VectorRows)
    /\ relationships = <<>>
    /\ stdin = <<>>
    /\ stdout = <<>>
    /\ tasks = NoTasks
    /\ server = NoProvider
    /\ now = SearchNow
    /\ config \in SearchConfigs
    /\ last = Idle

VectorQueries ==
    {[MemoryQueryDefault EXCEPT
        !.query_text = qt, !.memory_types = mt, !.limit = lim, !.min_relevance = mr,
        !.sort_by = so[1], !.sort_order = so[2]] :
        qt \in {None, Some(<<"r">>)},
        mt \in {None, Some(<<"Code">>)},
        lim \in {None, Some(1), Some(3)},
        mr \in {None, Some(Scale \div 2)},
        so \in {<<None, None>>, <<Some("CreatedAt"), None>>,
                <<Some("Importance"), Some("Ascending")>>}}

\* What a search leaves behind: its query and its outcome r.
SearchDone(op, query, embedding, r) ==
    /\ last = Idle
    /\ last' = [op |-> op, query |-> query, embedding |-> embedding] @@ r
    /\ UNCHANGED <<tasks, server, stdin, stdout, memories, relationships, now, config>>

VectorSearch(query, query_embedding) ==
    SearchDone("vector_search", query,
               IF IsSome(query.query_text) THEN Some(query_embedding) ELSE None,
               vector_search(memories, query, config, now, query_embedding))

NextVector == \E query \in VectorQueries, e \in QueryEmbeddings : VectorSearch(query, e)

SpecVector == InitVector /\ [][NextVector]_vars

\* C9: every result of vector_search passes matches_filters and has a
\* relevance_score of at least min_relevance (0 when unset); there are at
\* most min(limit, max_search_results) results (max_search_results when
\* limit is unset); and with sort_by unset they are in non-increasing order
\* of relevance_score.
C9_VectorSearchResults ==
    (last.op = "vector_search" /\ last.ok) =>
        LET q == last.query
            rs == last.results
            cap == IF q.limit = None THEN config.max_search_results
                   ELSE Min2(q.limit[1], config.max_search_results)
        IN  /\ \A i \in 1..Len(rs) :
                  /\ matches_filters(rs[i].memory, q)
                  /\ rs[i].relevance_score >= (IF q.min_relevance = None THEN 0
                                               ELSE q.min_relevance[1])
            /\ Len(rs) <= cap
            /\ q.sort_by = None =>
                  \A i, j \in 1..Len(rs) :
                      i < j => rs[i].relevance_score >= rs[j].relevance_score

\* A semantic search with a type filter and a limit above the cap, whose
\* three stored memories all pass: two are returned, best first.
C9_Witness ==
    /\ last.op = "vector_search"
    /\ last.ok
    /\ last.query.query_text # None
    /\ last.query.memory_types # None
    /\ last.query.limit = Some(3)
    /\ last.query.sort_by = None
    /\ Len(memories) = 3
    /\ Len(last.results) = 2
    /\ last.results[1].relevance_score > last.results[2].relevance_score

(***************************************************************************)
(* One hybrid search on a filled store                                     *)
(***************************************************************************)
\* The rows stored under an id: the keyword r is the whole title, a third
\* of it, or not in it.
HybridRows ==
    [k \in 1..Len(SearchIds) |->
        {MemoryToRow(SearchMemory(SearchIds[k], p[1], p[2]), p[3]) :
            p \in {<< <<"r">>, OldCode, <<Scale, 0>> >>,
                   << <<"R", "!", "x", " ", "x">>, OldCode, <<Scale, 0>> >>,
                   << <<"x">>, OldCode, <<Scale, 0>> >>,
                   << <<"r">>, NewBugFix, <<424, 424>> >>}}]

InitHybrid ==
    /\ memories \in SearchTables(HybridRows)
    /\ relationships = <<>>
    /\ stdin = <<>>
    /\ stdout = <<>>
    /\ tasks = NoTasks
    /\ server = NoProvider
    /\ now = SearchNow
    /\ config = [StoreConfig EXCEPT !.decay_enabled = FALSE]
    /\ last = Idle

HybridFilters ==
    {MemoryQueryDefault,
     [MemoryQueryDefault EXCEPT !.limit = Some(1)],
     [MemoryQueryDefault EXCEPT !.min_relevance = Some(Scale \div 2)],
     [MemoryQueryDefault EXCEPT !.memory_types = Some(<<"Code">>)]}

WeightsInRange ==
    {<<(6 * Scale) \div 10, (2 * Scale) \div 10, Scale \div 10, Scale \div 10>>,
     <<0, Scale, 0, 0>>,
     <<0, 0, Scale \div 2, Scale \div 2>>}

WeightsOutOfRange ==
    {<<0 - 1, 0, 0, 0>>, <<0, Scale + 1, 0, 0>>, <<0, 0, 0 - 1, 0>>, <<0, 0, 0, Scale + 1>>}

HybridQuery(vq, kw, w, filters) ==
    [vector_query |-> vq, keywords |-> kw,
     vector_weight |-> w[1], keyword_weight |-> w[2],
     recency_weight |-> w[3], importance_weight |-> w[4], filters |-> filters]

HybridQueries ==
    {HybridQuery(vq, kw, w, f) :
        vq \in {None, Some(<<"r">>)},
        kw \in {None, Some(<< <<"R">> >>), Some(<< <<"z">> >>)},
        w \in WeightsInRange, f \in HybridFilters}
    \cup
    {HybridQuery(s[1], s[2], w, MemoryQueryDefault) :
        s \in {<<None, None>>, <<Some(<<"r">>), Some(<< <<"R">> >>)>>},
        w \in WeightsOutOfRange}

\* The orders in which a map holding the ids of the table may be iterated.
IterationOrders(table) ==
    LET ids == {table[i].id : i \in 1..Len(table)}
    IN  {o \in [1..Cardinality(ids) -> ids] : \A id \in ids : \E i \in DOMAIN o : o[i] = id}

HybridSearch(query, query_embedding, order) ==
    SearchDone("hybrid_search", query,
               IF IsSome(query.vector_query) THEN Some(query_embedding) ELSE None,
               hybrid_search(memories, query, config, now, query_embedding, order))

NextHybrid ==
    \E query \in HybridQueries, e \in QueryEmbeddings, order \in IterationOrders(memories) :
        HybridSearch(query, e, order)

SpecHybrid == InitHybrid /\ [][NextHybrid]_vars

\* What the searches of the last hybrid_search found, recomputed from the
\* table.
LastVectorResults ==
    IF last.query.vector_query = None THEN <<>>
    ELSE vector_search(memories,
             [last.query.filters EXCEPT
                 !.query_text = last.query.vector_query,
                 !.limit = Some(2 * (IF last.query.filters.limit = None
                                     THEN config.max_search_results
                                     ELSE last.query.filters.limit[1]))],
             config, now, last.embedding[1]).results

LastKeywordResults ==
    IF last.query.keywords = None THEN <<>>
    ELSE keyword_search(memories, last.query.keywords[1], last.query.filters, now).results

\* The score a search gave the memory with this id, 0 when it is not among
\* the results.
ScoreIn(results, field, id) ==
    IF \E i \in 1..Len(results) : results[i].memory.id = id
    THEN results[CHOOSE i \in 1..Len(results) : results[i].memory.id = id][field]
    ELSE 0

LastRec(memory) == calculate_recency_score(memory, config.recency_decay_days, now)

LastImp(memory) ==
    get_current_importance(memory, config.decay_enabled, config.min_importance_threshold, now)

LastWeightsInRange ==
    \A w \in {last.query.vector_weight, last.query.keyword_weight,
              last.query.recency_weight, last.query.importance_weight} :
        0 <= w /\ w <= Scale

LastLimit ==
    IF last.query.filters.limit = None THEN config.max_search_results
    ELSE last.query.filters.limit[1]

LastMinRelevance ==
    IF last.query.filters.min_relevance = None THEN 0
    ELSE last.query.filters.min_relevance[1]

NonIncreasing(results) ==
    \A i, j \in 1..Len(results) :
        i < j => results[i].relevance_score >= results[j].relevance_score

DistinctIds(results) ==
    \A i, j \in 1..Len(results) : i # j => results[i].memory.id # results[j].memory.id

\* The score the last query gives a memory on recency and importance alone.
LastRecImp(memory) ==
    last.query.recency_weight * LastRec(memory)
    + last.query.importance_weight * LastImp(memory)

\* The stored memories that pass the filters and whose recency and
\* importance alone reach min_relevance.
LastFallbackSet ==
    {m \in Range(batch_to_memories(memories, now)) :
        /\ matches_filters(m, last.query.filters)
        /\ LastRecImp(m) >= LastMinRelevance * Scale}

\* The results are the best of the set by recency and importance alone.
BestByRecImp(rs, returned, set) ==
    /\ returned \subseteq set
    /\ DistinctIds(rs)
    /\ Len(rs) = Min2(LastLimit, Cardinality(set))
    /\ \A i \in 1..Len(rs) : rs[i].relevance_score = LastRecImp(rs[i].memory)
    /\ NonIncreasing(rs)
    /\ \A m \in set \ returned :
          \A i \in 1..Len(rs) : rs[i].relevance_score >= LastRecImp(m)

\* The final score the last query gives a memory with these vector and
\* keyword scores.
LastFinal(memory, vec, kw) ==
    last.query.vector_weight * vec + last.query.keyword_weight * kw
    + last.query.recency_weight * LastRec(memory)
    + last.query.importance_weight * LastImp(memory)

ScoredAndRanked(rs, vr, kr) ==
    LET Vec(m) == ScoreIn(vr, "relevance_score", m.id)
        Kw(m) == ScoreIn(kr, "score", m.id)
    IN  /\ \A i \in 1..Len(rs) :
              /\ rs[i].relevance_score
                    = LastFinal(rs[i].memory, Vec(rs[i].memory), Kw(rs[i].memory))
              /\ rs[i].relevance_score >= LastMinRelevance * Scale
        /\ DistinctIds(rs)
        /\ NonIncreasing(rs)
        /\ Len(rs) <= LastLimit
        /\ Len(rs) < LastLimit =>
              \A m \in {vr[i].memory : i \in 1..Len(vr)} \cup {kr[i].memory : i \in 1..Len(kr)} :
                  LastFinal(m, Vec(m), Kw(m)) >= LastMinRelevance * Scale =>
                      \E i \in 1..Len(rs) : rs[i].memory = m
        /\ \A i, j \in 1..Len(rs) :
              (/\ last.query.keyword_weight > 0
               /\ Vec(rs[i].memory) = Vec(rs[j].memory)
               /\ LastRec(rs[i].memory) = LastRec(rs[j].memory)
               /\ LastImp(rs[i].memory) = LastImp(rs[j].memory)
               /\ Kw(rs[i].memory) > Kw(rs[j].memory)) => i < j

KeywordLists == {<<>>, << <<"R">> >>, << <<"z">> >>, << <<"r">>, <<"X">> >>}

KeywordSearch(keywords, filters) ==
    SearchDone("keyword_search", [keywords |-> keywords, filters |-> filters], None,
               keyword_search(memories, keywords, filters, now))

NextKeyword ==
    \E keywords \in KeywordLists, filters \in HybridFilters : KeywordSearch(keywords, filters)

SpecKeyword == InitHybrid /\ [][NextKeyword]_vars

\* The number of tokens of the text equal to the lower-cased keyword, and
\* the number of tokens.
TokenCount(keyword, text) ==
    Cardinality({i \in 1..Len(tokenize(text)) : tokenize(text)[i] = to_lowercase(keyword)})

\* Term frequency times weight, summed over the keywords, for one field.
RECURSIVE FieldScore(_, _, _, _)
FieldScore(keywords, text, weight, i) ==
    IF i > Len(keywords) \/ tokenize(text) = <<>> THEN 0
    ELSE weight * ((TokenCount(keywords[i], text) * Scale) \div Len(tokenize(text)))
         + FieldScore(keywords, text, weight, i + 1)

\* The raw score the claim gives a memory.
RawScore(keywords, m) ==
    FieldScore(keywords, m.title, 3, 1) + FieldScore(keywords, m.content, 1, 1)
    + FieldScore(keywords, JoinWithSpace(m.metadata.tags, 1), 2, 1)

RECURSIVE LargestRaw(_, _, _)
LargestRaw(keywords, rs, i) ==
    IF i > Len(rs) THEN 0
    ELSE Max2(RawScore(keywords, rs[i].memory), LargestRaw(keywords, rs, i + 1))

\* The results rs are what the claim says of a search for keywords.
KeywordResultsAsClaimed(rs, keywords, filters, largest) ==
    /\ keywords = <<>> => rs = <<>>
    /\ \A i \in 1..Len(rs) :
          /\ rs[i].memory \in Range(batch_to_memories(memories, now))
          /\ matches_filters(rs[i].memory, filters)
          /\ RawScore(keywords, rs[i].memory) > 0
          /\ rs[i].score = (RawScore(keywords, rs[i].memory) * Scale) \div largest
          /\ 0 < rs[i].score /\ rs[i].score <= Scale
    /\ rs # <<>> => rs[1].score = Scale
    /\ \A i, j \in 1..Len(rs) : i < j => rs[i].score >= rs[j].score

\* C11: keyword_search returns only memories that pass the filters and have
\* a positive raw score (term frequency times 3, 1 and 2 for title, content
\* and joined tags, summed over the keywords); each returned score is the
\* raw score divided by the largest raw score, so it is in (0,1] and the
\* first is 1; the results are in non-increasing order of score; an empty
\* keyword list gives an empty list and no error.
C11_KeywordSearchScores ==
    last.op = "keyword_search" =>
        /\ last.ok
        /\ KeywordResultsAsClaimed(last.results, last.query.keywords, last.query.filters,
                                   LargestRaw(last.query.keywords, last.results, 1))

\* Two keywords, three memories found: the best scores 1, the last less,
\* in title and tags with different weights.
C11_Witness ==
    /\ last.op = "keyword_search"
    /\ Len(last.query.keywords) = 2
    /\ Len(last.results) = 3
    /\ last.results[1].score = Scale
    /\ last.results[3].score < last.results[2].score
    /\ \E i \in 1..3 : last.results[i].memory.metadata.tags # <<>>

(***************************************************************************)
(* Cleanup                                                                 *)
(***************************************************************************)
DigitChars == <<"0", "1", "2", "3", "4", "5", "6", "7", "8", "9">>

\* The text of a timestamp written by to_rfc3339, always in UTC: fields of
\* fixed width, the most significant first.
Rfc3339Text(s) ==
    <<DigitChars[(s.rfc3339 \div 10) + 1], DigitChars[(s.rfc3339 % 10) + 1]>>

CharOrder(c) == CHOOSE k \in 1..Len(DigitChars) : DigitChars[k] = c

\* a < b for two strings, as SQL compares Utf8 values: character by
\* character.
RECURSIVE StringLess(_, _, _)
StringLess(a, b, i) ==
    IF i > Len(b) THEN FALSE
    ELSE IF i > Len(a) THEN TRUE
    ELSE IF a[i] = b[i] THEN StringLess(a, b, i + 1)
    ELSE CharOrder(a[i]) < CharOrder(b[i])

\* The cleanup predicate without the age.
CleanupPredicateAnyAge(row, cutoff_str, cleanup_min_importance) ==
    row.importance < cleanup_min_importance

\* "created_at < '{cutoff_str}' AND importance < {cleanup_min_importance}"
CleanupPredicate(row, cutoff_str, cleanup_min_importance) ==
    /\ StringLess(Rfc3339Text(row.created_at), Rfc3339Text(cutoff_str), 1)
    /\ row.importance < cleanup_min_importance

\* The rows counted and then deleted, and the rows left.
CleanupWith(table, cutoff_str, cleanup_min_importance) ==
    [ok |-> TRUE,
     count |-> Len(SelectSeq(table, LAMBDA row :
                       CleanupPredicate(row, cutoff_str, cleanup_min_importance))),
     table |-> SelectSeq(table, LAMBDA row :
                   ~ CleanupPredicate(row, cutoff_str, cleanup_min_importance))]

\* cleanup_old_memories, at time t
cleanup_old_memories(table, cfg, t) ==
    IF IsSome(cfg.auto_cleanup_days)
    THEN CleanupWith(table,
                     to_rfc3339(t - Unwrap(cfg.auto_cleanup_days) * TicksPerDay),
                     cfg.cleanup_min_importance)
    ELSE [ok |-> TRUE, count |-> 0, table |-> table]

\* The rows stored under an id: made two days ago, one day ago (at the
\* cutoff of a one-day cleanup) or now, with an importance below, at or
\* above cleanup_min_importance.
CleanupRows ==
    [k \in 1..Len(SearchIds) |->
        {MemoryToRow(SearchMemory(SearchIds[k], <<"r">>,
                        [OldCode EXCEPT !.created_at = c, !.importance = imp]),
                     <<Scale, 0>>) :
            c \in {0, TicksPerDay, SearchNow},
            imp \in {Scale \div 20, Scale \div 10, Scale \div 2}}]

\* impl Default for MemoryConfig, with small numbers: cleanup after a day
\* or two or never, at most one memory or any number.
CleanupConfigs ==
    {[StoreConfig EXCEPT !.decay_enabled = FALSE] @@
     [max_memories |-> mm, auto_cleanup_days |-> days,
      cleanup_min_importance |-> Scale \div 10] :
        mm \in {None, Some(1)}, days \in {None, Some(1), Some(2)}}

InitCleanup ==
    /\ memories \in SearchTables(CleanupRows)
    /\ relationships = <<>>
    /\ stdin = <<>>
    /\ stdout = <<>>
    /\ tasks = NoTasks
    /\ server = NoProvider
    /\ now = SearchNow
    /\ config \in CleanupConfigs
    /\ last = Idle

CleanupDone(r) ==
    /\ last = Idle
    /\ memories' = r.table
    /\ last' = [op |-> "cleanup_old_memories", ok |-> r.ok, count |-> r.count]
    /\ UNCHANGED <<tasks, server, stdin, stdout, relationships, now, config>>

CleanupOldMemories == CleanupDone(cleanup_old_memories(memories, config, now))

\* get_memory_count after the cleanup
GetMemoryCount ==
    /\ last.op = "cleanup_old_memories"
    /\ last' = [op |-> "get_memory_count", ok |-> TRUE, count |-> Len(memories)]
    /\ UNCHANGED <<tasks, server, stdin, stdout, memories, relationships, now, config>>

NextCleanup == CleanupOldMemories \/ GetMemoryCount

SpecCleanup == InitCleanup /\ [][NextCleanup]_vars

\* The memory of the row is older than auto_cleanup_days and its stored
\* importance is below cleanup_min_importance.
OldAndUnimportant(row) ==
    /\ config.auto_cleanup_days # None
    /\ parse_from_rfc3339(row.created_at) < now - config.auto_cleanup_days[1] * TicksPerDay
    /\ row.importance < config.cleanup_min_importance

\* C12: a cleanup with auto_cleanup_days set deletes exactly the memories
\* created before now minus auto_cleanup_days whose stored importance is
\* below cleanup_min_importance, leaves the others as they were and returns
\* the number deleted; with auto_cleanup_days unset it deletes nothing and
\* returns 0.
C12_CleanupStep ==
    last'.op = "cleanup_old_memories" =>
        /\ last'.ok
        /\ memories' = SelectSeq(memories, LAMBDA row : ~ OldAndUnimportant(row))
        /\ last'.count = Len(memories) - Len(memories')
        /\ config.auto_cleanup_days = None => (memories' = memories /\ last'.count = 0)

C12_CleanupDeletesOldUnimportant == [][C12_CleanupStep]_vars

\* A one-day cleanup of three memories has removed two, and left one that
\* is as unimportant but was made exactly at the cutoff.
C12_Witness ==
    /\ last.op = "cleanup_old_memories"
    /\ config.auto_cleanup_days = Some(1)
    /\ last.count = 2
    /\ Len(memories) = 1
    /\ memories[1].importance < config.cleanup_min_importance
    /\ parse_from_rfc3339(memories[1].created_at) = now - TicksPerDay

\* C13: with max_memories set, after cleanup_old_memories returns there are
\* at most max_memories memories in the store.
C13_CleanupEnforcesMaxMemories ==
    (last.op \in {"cleanup_old_memories", "get_memory_count"}
     /\ last.ok /\ config.max_memories # None) =>
        Len(memories) <= config.max_memories[1]


(***************************************************************************)
(* Clearing the store                                                      *)
(***************************************************************************)
\* The database the store holds: its tables by name.
OpenDb(mem_table, rel_table) ==
    [name \in {"memories", "memory_relationships"} |->
        IF name = "memories" THEN mem_table ELSE rel_table]

table_names(db) == DOMAIN db

count_rows(db, name) == Len(db[name])

\* A drop_table that leaves the table as it is.
drop_table_keeping(db, name) == db

drop_table(db, name) == [n \in DOMAIN db \ {name} |-> db[n]]

create_empty_table(db, name) ==
    [n \in DOMAIN db \cup {name} |-> IF n = name THEN <<>> ELSE db[n]]

\* initialize_tables: the names are read once, then each missing table is
\* created empty.
initialize_tables(db) ==
    LET names == table_names(db)
        with_memories ==
            IF "memories" \notin names
            THEN create_empty_table(db, "memories") ELSE db
    IN  IF "memory_relationships" \notin names
        THEN create_empty_table(with_memories, "memory_relationships")
        ELSE with_memories

DropIfPresent(db, name) ==
    IF name \in table_names(db) THEN drop_table(db, name) ELSE db

\* clear_all_memory_data: count both tables (a failed count of memories
\* counts as 0, a relationships table that cannot be opened is an error),
\* drop both, create both again.
clear_all_memory_data(db) ==
    LET memory_count ==
            IF "memories" \in table_names(db) THEN count_rows(db, "memories") ELSE 0
    IN  IF "memory_relationships" \notin table_names(db)
        THEN [ok |-> FALSE, count |-> 0, db |-> db]
        ELSE [ok |-> TRUE,
              count |-> memory_count + count_rows(db, "memory_relationships"),
              db |-> initialize_tables(
                        DropIfPresent(DropIfPresent(db, "memories"),
                                      "memory_relationships"))]

TableOrEmpty(db, name) == IF name \in table_names(db) THEN db[name] ELSE <<>>

ClearDone(r) ==
    /\ memories' = TableOrEmpty(r.db, "memories")
    /\ relationships' = TableOrEmpty(r.db, "memory_relationships")
    /\ last' = [op |-> "clear_all_memory_data", ok |-> r.ok, count |-> r.count,
                table_names |-> table_names(r.db)]
    /\ UNCHANGED <<tasks, server, stdin, stdout, now, config>>

ClearAllMemoryData == ClearDone(clear_all_memory_data(OpenDb(memories, relationships)))

NextClear == StoreNext(PlainIds) \/ ClearAllMemoryData

SpecClear == Init /\ [][NextClear]_vars

\* C14: clear_all_memory_data returns the number of memory rows plus the
\* number of relationship rows there were before the call; after it returns
\* Ok both tables exist and are empty; a store_memory that follows it and
\* succeeds leaves exactly its own row, and a get_memory that follows it
\* returns Ok(None).
C14_ClearStep ==
    /\ (last'.op = "clear_all_memory_data" /\ last'.ok /\ last' # last) =>
          /\ last'.count = Len(memories) + Len(relationships)
          /\ last'.table_names = {"memories", "memory_relationships"}
          /\ memories' = <<>>
          /\ relationships' = <<>>
    /\ (last.op = "clear_all_memory_data" /\ last.ok) =>
          /\ (last'.op = "store_memory" /\ last'.ok) =>
                /\ Len(memories') = 1
                /\ memories'[1].id = last'.memory.id
          /\ (last'.op = "get_memory") => (last'.ok /\ last'.value = None)
          /\ (last'.op = "get_memory_relationships") =>
                (last'.ok /\ last'.value = <<>>)

EdgesOf(table, id) ==
    SelectSeq(table, LAMBDA row : row.source_id = id \/ row.target_id = id)

RowIds(rows) == [i \in 1..Len(rows) |-> rows[i].id]

\* C15: the relationships table holds at most one row per relationship id,
\* and get_memory_relationships(memory_id) returns Ok with exactly the rows
\* whose source_id or target_id is memory_id, whether or not that id is a
\* stored memory.
C15_RelationshipUpsertAndLookup ==
    /\ UniqueIds(relationships)
    /\ (last.op = "get_memory_relationships") =>
          /\ last.ok
          /\ RowIds(last.value) = RowIds(EdgesOf(relationships, last.id))


(***************************************************************************)
(* The length of the stored vectors                                        *)
(***************************************************************************)
\* C16: a store_memory or update_memory whose embedding has a length other
\* than vector_dim returns an error and leaves the memories table as it
\* was; and every row of memories holds a vector of vector_dim elements,
\* the one the embedder gave for the write that succeeded.
C16_WrongLengthStep ==
    (IsWrite(last') /\ last' # last) =>
        /\ (Len(last'.embedding) # config.vector_dim) =>
              (~ last'.ok /\ memories' = memories)
        /\ last'.ok =>
              \E i \in 1..Len(memories') :
                  /\ memories'[i].id = last'.memory.id
                  /\ memories'[i].embedding = last'.embedding
        /\ \A i \in 1..Len(memories') :
              Len(memories'[i].embedding) = config.vector_dim

C16_WrongLengthEmbeddingRejected == [][C16_WrongLengthStep]_vars


(***************************************************************************)
(* The MCP server: a JSON-RPC 2.0 loop over the lines of stdin             *)
(***************************************************************************)
\* The lines stdin holds at most.
MaxLines == 2

\* A line that parses as a JsonRpcRequest: its method and its id, None for
\* a request without one.
JsonRpcRequest(method, id) == [line |-> "request", method |-> method, id |-> id]

\* The lines a client can send: requests with and without an id, a line of
\* blanks, and a line that is not JSON.
ServerLines ==
    {JsonRpcRequest(method, id) :
        method \in {"initialize", "tools/list", "tools/call", "notifications/initialized"},
        id \in {None, Some(1)}}
    \cup {[line |-> "blank"], [line |-> "garbage"]}

JsonRpcResponse(id, result, error) == [id |-> id, result |-> result, error |-> error]

RECURSIVE SeqsUpTo(_, _)
SeqsUpTo(items, n) ==
    IF n = 0 THEN {<<>>}
    ELSE LET shorter == SeqsUpTo(items, n - 1)
         IN  shorter \cup {Append(q, x) : q \in shorter, x \in items}

\* What get_or_init_memory and the tool of a tools/call can come to: the
\* provider fails to start, the tool fails, the tool returns its text.
ToolOutcomes == {"init_failed", "tool_failed", "tool_ok"}

\* handle_request: the response to write, None for none.
handle_request(request, outcome) ==
    IF request.method = "initialize"
    THEN Some(JsonRpcResponse(request.id, Some("serverInfo"), None))
    ELSE IF request.method = "tools/list"
    THEN Some(JsonRpcResponse(request.id, Some("tools"), None))
    ELSE IF request.method = "tools/call"
    THEN IF outcome = "tool_ok"
         THEN Some(JsonRpcResponse(request.id, Some("content"), None))
         ELSE Some(JsonRpcResponse(request.id, None, Some(outcome)))
    ELSE IF ~ IsSome(request.id)
    THEN None
    ELSE Some(JsonRpcResponse(request.id, None, Some(-32601)))

\* What one turn of the loop of run writes for a line.
ResponsesTo(line, outcome) ==
    IF line.line = "blank" THEN <<>>
    ELSE IF line.line = "garbage"
    THEN <<JsonRpcResponse(None, None, Some(-32700))>>
    ELSE handle_request(line, outcome)

InitServer ==
    /\ memories = <<>>
    /\ relationships = <<>>
    /\ now = 0
    /\ config = StoreConfig
    /\ last = Idle
    /\ stdin \in SeqsUpTo(ServerLines, MaxLines)
    /\ stdout = <<>>
    /\ tasks = NoTasks
    /\ server = NoProvider

\* One turn of the loop of run: read a line, answer it.
ServeLine(outcome) ==
    /\ last.op # "shutdown"
    /\ stdin # <<>>
    /\ stdin' = Tail(stdin)
    /\ stdout' = stdout \o ResponsesTo(Head(stdin), outcome)
    /\ last' = [op |-> "read_line", line |-> Head(stdin)]
    /\ UNCHANGED <<tasks, server, memories, relationships, now, config>>

\* read_line returns 0 bytes: the loop ends.
Shutdown ==
    /\ last.op # "shutdown"
    /\ stdin = <<>>
    /\ last' = [op |-> "shutdown"]
    /\ UNCHANGED <<tasks, server, memories, relationships, now, config, stdin, stdout>>

NextServer ==
    \/ \E outcome \in ToolOutcomes : ServeLine(outcome)
    \/ Shutdown

SpecServer == InitServer /\ [][NextServer]_vars

IsNotification(line) == line.line = "request" /\ ~ IsSome(line.id)

\* C17: the server writes nothing to stdout in the turn that reads a
\* request without an id, whatever its method.
C17_NotificationStep ==
    (stdin # <<>> /\ stdin' = Tail(stdin) /\ IsNotification(Head(stdin))) =>
        stdout' = stdout

C17_NotificationsGetNoResponse == [][C17_NotificationStep]_vars


(***************************************************************************)
(* The mutators of a Memory                                                *)
(***************************************************************************)
\* Memory::new at time t; the id is a fresh UUID.
MemoryNew(memory_type, title, content, metadata, t) ==
    [id |-> <<"a">>, memory_type |-> memory_type, title |-> title,
     content |-> content,
     metadata |-> UnwrapOr(metadata, MemoryMetadataDefault(t)),
     created_at |-> t, updated_at |-> t, relevance_score |-> None]

\* Memory::update at time t.
update(memory, title, content, metadata, t) ==
    [memory EXCEPT !.title = UnwrapOr(title, @),
                   !.content = UnwrapOr(content, @),
                   !.metadata = UnwrapOr(metadata, @),
                   !.updated_at = t]

\* iter().position(|x| x == value): the first index holding value, 0 for None.
RECURSIVE Position(_, _, _)
Position(list, value, i) ==
    IF i > Len(list) THEN 0
    ELSE IF list[i] = value THEN i
    ELSE Position(list, value, i + 1)

\* Vec::remove(pos)
RemoveAt(list, pos) == SubSeq(list, 1, pos - 1) \o SubSeq(list, pos + 1, Len(list))

add_tag(memory, tag, t) ==
    IF ~ Contains(memory.metadata.tags, tag)
    THEN [memory EXCEPT !.metadata.tags = Append(@, tag), !.updated_at = t]
    ELSE memory

remove_tag(memory, tag, t) ==
    LET pos == Position(memory.metadata.tags, tag, 1)
    IN  IF pos # 0
        THEN [memory EXCEPT !.metadata.tags = RemoveAt(@, pos), !.updated_at = t]
        ELSE memory

add_related_file(memory, file_path, t) ==
    IF ~ Contains(memory.metadata.related_files, file_path)
    THEN [memory EXCEPT !.metadata.related_files = Append(@, file_path),
                        !.updated_at = t]
    ELSE memory

remove_related_file(memory, file_path, t) ==
    LET pos == Position(memory.metadata.related_files, file_path, 1)
    IN  IF pos # 0
        THEN [memory EXCEPT !.metadata.related_files = RemoveAt(@, pos),
                            !.updated_at = t]
        ELSE memory

\* The values a caller adds and removes.
MutatorValues == {<<"x">>, <<"y">>}

\* The lists a caller's MemoryMetadata can hold: the fields are public, so
\* a list may hold a value twice.
CallerLists == {<<>>, << <<"x">> >>, << <<"x">>, <<"y">> >>, << <<"x">>, <<"x">> >>}

\* The metadata argument of Memory::new and Memory::update.
CallerMetadata(t) ==
    {None} \cup
    {Some([MemoryMetadataDefault(t) EXCEPT !.tags = tags, !.related_files = files]) :
        tags \in CallerLists, files \in CallerLists}

InitMutators ==
    /\ memories = <<>>
    /\ relationships = <<>>
    /\ stdin = <<>>
    /\ stdout = <<>>
    /\ tasks = NoTasks
    /\ server = NoProvider
    /\ now = 0
    /\ config = StoreConfig
    /\ \E metadata \in CallerMetadata(0) :
          last = [op |-> "new", value |-> None,
                  memory |-> MemoryNew("Code", <<"r">>, <<"x">>, metadata, 0)]

Mutated(op, value, memory) ==
    /\ last' = [op |-> op, value |-> value, memory |-> memory]
    /\ UNCHANGED <<tasks, server, stdin, stdout, memories, relationships, now, config>>

MemoryUpdate(title, metadata) ==
    Mutated("update", None, update(last.memory, title, None, metadata, now))

AddTag(tag) == Mutated("add_tag", Some(tag), add_tag(last.memory, tag, now))

RemoveTag(tag) == Mutated("remove_tag", Some(tag), remove_tag(last.memory, tag, now))

AddRelatedFile(file_path) ==
    Mutated("add_related_file", Some(file_path),
            add_related_file(last.memory, file_path, now))

RemoveRelatedFile(file_path) ==
    Mutated("remove_related_file", Some(file_path),
            remove_related_file(last.memory, file_path, now))

NextMutators ==
    \/ \E title \in {None, Some(<<"t">>)}, metadata \in CallerMetadata(now) :
          MemoryUpdate(title, metadata)
    \/ \E tag \in MutatorValues : AddTag(tag)
    \/ \E tag \in MutatorValues : RemoveTag(tag)
    \/ \E file_path \in MutatorValues : AddRelatedFile(file_path)
    \/ \E file_path \in MutatorValues : RemoveRelatedFile(file_path)
    \/ Tick

SpecMutators == InitMutators /\ [][NextMutators]_vars

IsMutator(op) ==
    op \in {"add_tag", "remove_tag", "add_related_file", "remove_related_file"}

\* The list a mutator works on.
ListOf(memory, op) ==
    IF op \in {"add_tag", "remove_tag"}
    THEN memory.metadata.tags ELSE memory.metadata.related_files

\* C18: a mutator called a second time in a row with the same value leaves
\* the memory as the first call left it, updated_at included; a call that
\* adds a value already there or removes one that is not there leaves
\* updated_at as it was; and a call that adds a new value puts it after
\* the values already there.
C18_MutatorStep ==
    (IsMutator(last'.op) /\ (last' # last \/ now' = now)) =>
        /\ (last.op = last'.op /\ last.value = last'.value) =>
              last'.memory = last.memory
        /\ (last'.op \in {"add_tag", "add_related_file"}
            /\ Contains(ListOf(last.memory, last'.op), Unwrap(last'.value))) =>
              last'.memory.updated_at = last.memory.updated_at
        /\ (last'.op \in {"remove_tag", "remove_related_file"}
            /\ ~ Contains(ListOf(last.memory, last'.op), Unwrap(last'.value))) =>
              last'.memory.updated_at = last.memory.updated_at
        /\ (last'.op \in {"add_tag", "add_related_file"}
            /\ ~ Contains(ListOf(last.memory, last'.op), Unwrap(last'.value))) =>
              ListOf(last'.memory, last'.op)
                 = Append(ListOf(last.memory, last'.op), Unwrap(last'.value))

C18_MutatorsIdempotent == [][C18_MutatorStep]_vars


(***************************************************************************)
(* HybridSearchQuery::normalize_weights                                    *)
(***************************************************************************)
\* The weights of a query before the call are f32 values in units of
\* 1/Scale.  A quotient of two f32 values is kept to Precision times as
\* many places, about the six decimal places of an f32: the weights after
\* the call are in units of 1/(Scale * Precision).
Precision == 1000

FineUnit == Scale * Precision

WeightNames == {"vector_weight", "keyword_weight", "recency_weight", "importance_weight"}

\* self.x /= sum
DivideBy(weight, sum) == (weight * FineUnit) \div sum

\* The sum normalize_weights would take if it left importance_weight out.
WeightSumWithoutImportance(query) ==
    query.vector_weight + query.keyword_weight + query.recency_weight

WeightSum(query) ==
    query.vector_weight + query.keyword_weight + query.recency_weight
        + query.importance_weight

\* normalize_weights: each weight divided by the sum when the sum is above
\* zero, each weight as it is (in the finer unit) otherwise.
NormalizeBy(query, sum) ==
    IF sum > 0
    THEN [w \in WeightNames |-> DivideBy(query[w], sum)]
    ELSE [w \in WeightNames |-> query[w] * Precision]

normalize_weights(query) == NormalizeBy(query, WeightSum(query))

\* The values a weight takes: 0, 0.1, 0.5, 1 and 2.
WeightValues == {0, Scale \div 10, Scale \div 2, Scale, 2 * Scale}

InitWeights ==
    /\ memories = <<>>
    /\ relationships = <<>>
    /\ stdin = <<>>
    /\ stdout = <<>>
    /\ tasks = NoTasks
    /\ server = NoProvider
    /\ now = 0
    /\ config = StoreConfig
    /\ \E query \in [WeightNames -> WeightValues] :
          last = [op |-> "input", query |-> query]

NormalizeWeights ==
    /\ last.op = "input"
    /\ last' = [op |-> "normalize_weights", before |-> last.query,
                query |-> normalize_weights(last.query)]
    /\ UNCHANGED <<tasks, server, stdin, stdout, memories, relationships, now, config>>

NextWeights == NormalizeWeights

SpecWeights == InitWeights /\ [][NextWeights]_vars

Abs(x) == IF x >= 0 THEN x ELSE 0 - x

\* 1e-3, in the unit of the weights after the call.
SumTolerance == FineUnit \div 1000

\* The weights after sum to 1.0 within 1e-3.
SumsToOne(after) ==
    Abs(after.vector_weight + after.keyword_weight + after.recency_weight
            + after.importance_weight - FineUnit) <= SumTolerance

\* after[a] / after[b] = before[a] / before[b], to the last place kept.
RatiosPreserved(before, after) ==
    \A a, b \in WeightNames :
        Abs(after[a] * before[b] - after[b] * before[a]) <= Max2(before[a], before[b])

\* C19 as stated: after normalize_weights every non-negative weight vector
\* sums to 1.0 within 1e-3, with the ratios between the weights as before.
C19_AnyVectorSumsToOne ==
    (last.op = "normalize_weights") =>
        (SumsToOne(last.query) /\ RatiosPreserved(last.before, last.query))

\* C19 amended: after normalize_weights every non-negative weight vector
\* with a sum above zero sums to 1.0 within 1e-3, with the ratios between
\* the weights as before; the vector of four zeros is left as it is.
C19_PositiveSumSumsToOne ==
    (last.op = "normalize_weights") =>
        IF WeightSum(last.before) > 0
        THEN SumsToOne(last.query) /\ RatiosPreserved(last.before, last.query)
        ELSE \A w \in WeightNames : last.query[w] = 0

\* The weights 2, 1, 1, 0 came out as 0.5, 0.25, 0.25, 0.
C19_Witness ==
    /\ last.op = "normalize_weights"
    /\ last.before = [vector_weight |-> 2 * Scale, keyword_weight |-> Scale,
                      recency_weight |-> Scale, importance_weight |-> 0]
    /\ last.query = [vector_weight |-> FineUnit \div 2, keyword_weight |-> FineUnit \div 4,
                     recency_weight |-> FineUnit \div 4, importance_weight |-> 0]


(***************************************************************************)
(* VectorOptimizer::calculate_index_params                                 *)
(***************************************************************************)
\* vector_dim is a usize of 64 bits whose cast to u32 keeps the low 32
\* bits.  It is held as limbs of 16 bits, the lowest first: four for a
\* usize, two for a u32.  row_count is held as a number: its casts to f64
\* and back to u32 lose nothing below 2^32 and stop at u32::MAX above.
Limb == 65536

UsizeLimbs == 4

U32Limbs == 2

\* vector_dim / 8, limb by limb: each limb gives its low three bits to the
\* limb below.
DivideBy8(x) ==
    [i \in 1..Len(x) |->
        (x[i] \div 8) + (IF i < Len(x) THEN (x[i + 1] % 8) * (Limb \div 8) ELSE 0)]

\* (x) as u32: the low 32 bits.
AsU32(x) == SubSeq(x, 1, U32Limbs)

\* x.clamp(low, high) for bounds below one limb.
ClampLimbs(x, low, high) ==
    IF \E i \in 2..Len(x) : x[i] > 0 THEN high
    ELSE Max2(low, Min2(x[1], high))

\* The largest k between low and high with k * k <= n.
RECURSIVE SqrtBetween(_, _, _)
SqrtBetween(n, low, high) ==
    IF low >= high THEN low
    ELSE LET mid == (low + high + 1) \div 2
         IN  IF mid * mid <= n
             THEN SqrtBetween(n, mid, high)
             ELSE SqrtBetween(n, low, mid - 1)

\* (row_count as f64).sqrt() as u32: the square root, rounded down.
SqrtAsU32(row_count) == SqrtBetween(row_count, 0, 32768)

calculate_index_params(row_count, vector_dim) ==
    IF row_count < 1000
    THEN [should_create_index |-> FALSE, num_partitions |-> 0,
          num_sub_vectors |-> 0, num_bits |-> 0, distance_type |-> "Cosine"]
    ELSE [should_create_index |-> TRUE,
          num_partitions |-> Max2(2, Min2(SqrtAsU32(row_count), 256)),
          num_sub_vectors |-> ClampLimbs(AsU32(DivideBy8(vector_dim)), 1, 96),
          num_bits |-> 8, distance_type |-> "Cosine"]

\* Row counts around 1000 and around 256 * 256.
RowCounts == {0, 999, 1000, 1023, 1024, 1520, 65535, 65536, 1000000}

\* Dimensions: 0, 7, 8, 768, 776, 65536 + 8, 2^32, 2^35 and 2^35 + 768.
VectorDims ==
    {<<0, 0, 0, 0>>, <<7, 0, 0, 0>>, <<8, 0, 0, 0>>, <<768, 0, 0, 0>>,
     <<776, 0, 0, 0>>, <<8, 1, 0, 0>>, <<0, 0, 1, 0>>, <<0, 0, 8, 0>>,
     <<768, 0, 8, 0>>}

InitIndexParams ==
    /\ memories = <<>>
    /\ relationships = <<>>
    /\ stdin = <<>>
    /\ stdout = <<>>
    /\ tasks = NoTasks
    /\ server = NoProvider
    /\ now = 0
    /\ config = StoreConfig
    /\ \E row_count \in RowCounts, vector_dim \in VectorDims :
          last = [op |-> "input", row_count |-> row_count, vector_dim |-> vector_dim]

CalculateIndexParams ==
    /\ last.op = "input"
    /\ last' = [op |-> "calculate_index_params", row_count |-> last.row_count,
                vector_dim |-> last.vector_dim,
                params |-> calculate_index_params(last.row_count, last.vector_dim)]
    /\ UNCHANGED <<tasks, server, stdin, stdout, memories, relationships, now, config>>

NextIndexParams == CalculateIndexParams

SpecIndexParams == InitIndexParams /\ [][NextIndexParams]_vars

\* floor(sqrt(n)), by its definition.
FloorSqrt(n) == CHOOSE k \in 0..1000 : k * k <= n /\ n < (k + 1) * (k + 1)

\* clamp(vector_dim / 8, 1, 96) of the number the limbs stand for: a
\* dimension of 65536 or more has an eighth above 96.
ClaimedSubVectors(vector_dim) ==
    IF \E i \in 2..Len(vector_dim) : vector_dim[i] > 0 THEN 96
    ELSE Max2(1, Min2(vector_dim[1] \div 8, 96))

\* C20: calculate_index_params(row_count, vector_dim) returns
\* should_create_index = false when row_count < 1000; otherwise true with
\* num_partitions = clamp(floor(sqrt(row_count)), 2, 256), num_sub_vectors =
\* clamp(vector_dim / 8, 1, 96), num_bits = 8 and the cosine distance, for
\* every vector_dim.
C20_IndexParams ==
    (last.op = "calculate_index_params") =>
        IF last.row_count < 1000
        THEN ~ last.params.should_create_index
        ELSE /\ last.params.should_create_index
             /\ last.params.num_partitions
                   = Max2(2, Min2(FloorSqrt(last.row_count), 256))
             /\ last.params.num_sub_vectors = ClaimedSubVectors(last.vector_dim)
             /\ last.params.num_bits = 8
             /\ last.params.distance_type = "Cosine"


(***************************************************************************)
(* Decay of importance                                                     *)
(***************************************************************************)
\* The last tick of the clock of the decay runs: three days.
DecayHorizon == 3 * TicksPerDay

\* MemoryDecay records: accessed in the past or a day ahead of the clock's
\* start, with the default decay_rate, a slow one and a very fast one.
DecayInputs ==
    [base_importance : {0, Scale \div 2, Scale},
     access_count : 0..3,
     last_accessed : {0, 2 * TicksPerDay},
     decay_rate : {Scale \div 2, Scale, 3000 * Scale}]

\* min_threshold: the default 0.05, 0, and one below 0.
MinThresholds == {Scale \div 20, 0, 0 - (Scale \div 10)}

InitDecay ==
    /\ memories = <<>>
    /\ relationships = <<>>
    /\ stdin = <<>>
    /\ stdout = <<>>
    /\ tasks = NoTasks
    /\ server = NoProvider
    /\ now \in 0..DecayHorizon
    /\ config = StoreConfig
    /\ \E decay \in DecayInputs, min_threshold \in MinThresholds :
          last = [op |-> "input", decay |-> decay, min_threshold |-> min_threshold]

CalculateCurrentImportance ==
    /\ last.op = "input"
    /\ last' = [op |-> "calculate_current_importance", decay |-> last.decay,
                min_threshold |-> last.min_threshold,
                value |-> calculate_current_importance(last.decay, last.min_threshold, now)]
    /\ UNCHANGED <<tasks, server, stdin, stdout, memories, relationships, now, config>>

NextDecay == CalculateCurrentImportance

SpecDecay == InitDecay /\ [][NextDecay]_vars

\* C21: the value calculate_current_importance gave is not exceeded by the
\* value it gives for the same record at any later time, and is not above
\* the value it gives at the same time for the record with one more access.
C21_DecayMonotone ==
    (last.op = "calculate_current_importance") =>
        /\ \A later \in now..DecayHorizon :
              calculate_current_importance(last.decay, last.min_threshold, later)
                 <= last.value
        /\ calculate_current_importance(
              [last.decay EXCEPT !.access_count = @ + 1], last.min_threshold, now)
                 >= last.value


\* C22: calculate_current_importance is never below min_threshold, whatever
\* the base_importance, access_count, decay_rate and last_accessed.
C22_DecayFloor ==
    (last.op = "calculate_current_importance") => last.value >= last.min_threshold

\* A record never accessed, whose product is 0, came out at a min_threshold
\* above 0.
C22_Witness ==
    /\ last.op = "calculate_current_importance"
    /\ last.decay.access_count = 0
    /\ last.decay.base_importance > 0
    /\ last.min_threshold > 0
    /\ last.value = last.min_threshold


(***************************************************************************)
(* The recency score                                                       *)
(***************************************************************************)
\* Memories made at the clock's start, half a day and two days after it.
RecencyCreatedAt == {0, 1, 2 * TicksPerDay}

\* search.hybrid.recency_decay_days, a u32: the small values.
RecencyDecayDays == {0, 1, 2, 30}

InitRecency ==
    /\ memories = <<>>
    /\ relationships = <<>>
    /\ stdin = <<>>
    /\ stdout = <<>>
    /\ tasks = NoTasks
    /\ server = NoProvider
    /\ now \in 0..DecayHorizon
    /\ config = StoreConfig
    /\ \E created \in RecencyCreatedAt, days \in RecencyDecayDays :
          last = [op |-> "input", memory |-> PlainMemory(<<"a">>, created, created),
                  recency_decay_days |-> days]

CalculateRecencyScore ==
    /\ last.op = "input"
    /\ last' = [op |-> "calculate_recency_score", memory |-> last.memory,
                recency_decay_days |-> last.recency_decay_days,
                value |-> calculate_recency_score(last.memory,
                                                  last.recency_decay_days, now)]
    /\ UNCHANGED <<tasks, server, stdin, stdout, memories, relationships, now, config>>

NextRecency == CalculateRecencyScore

SpecRecency == InitRecency /\ [][NextRecency]_vars

\* C23: calculate_recency_score gives exactly 1.0 for a memory made after
\* now, a value in [0,1] for every memory and every recency_decay_days, and
\* no larger value for the same memory at any later time.
C23_RecencyScore ==
    (last.op = "calculate_recency_score") =>
        /\ (last.memory.created_at > now) => last.value = Scale
        /\ InUnit(last.value)
        /\ \A later \in now..DecayHorizon :
              calculate_recency_score(last.memory, last.recency_decay_days, later)
                 <= last.value


(***************************************************************************)
(* tokenize                                                                *)
(***************************************************************************)
\* The longest text tokenize is given.
MaxTextLen == 4

\* An upper-case and a lower-case letter, a digit, the underscore, a
\* hyphen and a blank.
TextChars == {"A", "b", "1", "_", "-", " "}

InitTokenize ==
    /\ memories = <<>>
    /\ relationships = <<>>
    /\ stdin = <<>>
    /\ stdout = <<>>
    /\ tasks = NoTasks
    /\ server = NoProvider
    /\ now = 0
    /\ config = StoreConfig
    /\ \E text \in SeqsUpTo(TextChars, MaxTextLen) :
          last = [op |-> "input", text |-> text]

Tokenize ==
    /\ last.op = "input"
    /\ last' = [op |-> "tokenize", text |-> last.text, tokens |-> tokenize(last.text)]
    /\ UNCHANGED <<tasks, server, stdin, stdout, memories, relationships, now, config>>

NextTokenize == Tokenize

SpecTokenize == InitTokenize /\ [][NextTokenize]_vars

\* The characters a token may hold: lower-case letters, digits, underscore.
TokenChars == Range(LowerLetters) \cup Digits \cup {"_"}

\* The character of text at position i, in lower case when it is a letter.
LoweredAt(text, i) ==
    IF text[i] = "A" THEN "a" ELSE text[i]

\* The positions where a run of token characters starts, and where it ends.
RunStarts(text) ==
    {i \in 1..Len(text) :
        /\ LoweredAt(text, i) \in TokenChars
        /\ (i = 1 \/ LoweredAt(text, i - 1) \notin TokenChars)}

RunEnd(text, i) ==
    CHOOSE j \in i..Len(text) :
        /\ \A k \in i..j : LoweredAt(text, k) \in TokenChars
        /\ (j = Len(text) \/ LoweredAt(text, j + 1) \notin TokenChars)

\* C24: every token is non-empty and made of lower-case letters, digits and
\* underscores; the tokens are, in the order of the input, the runs of such
\* characters of the lower-cased input, one token for each run; an input
\* without such a character gives no token.
C24_Tokenize ==
    (last.op = "tokenize") =>
        /\ \A n \in 1..Len(last.tokens) :
              /\ last.tokens[n] # <<>>
              /\ Range(last.tokens[n]) \subseteq TokenChars
        /\ Len(last.tokens) = Cardinality(RunStarts(last.text))
        /\ \A n \in 1..Len(last.tokens) :
              \E i \in RunStarts(last.text) :
                  /\ Cardinality({j \in RunStarts(last.text) : j < i}) = n - 1
                  /\ last.tokens[n] =
                        [k \in 1..(RunEnd(last.text, i) - i + 1) |->
                            LoweredAt(last.text, i + k - 1)]
        /\ (\A i \in 1..Len(last.text) : LoweredAt(last.text, i) \notin TokenChars) =>
              last.tokens = <<>>

\* "A-b_" gave the tokens "a" and "b_".
C24_Witness ==
    /\ last.op = "tokenize"
    /\ last.text = <<"A", "-", "b", "_">>
    /\ last.tokens = << <<"a">>, <<"b", "_">> >>

(***************************************************************************)
(* The upsert of store_memory, step by step                                *)
(*                                                                         *)
(* store_memory_with_embedding awaits the delete and then the add: each is *)
(* its own commit on the table.  Writers are calls of store_memory on      *)
(* handles of one database; between two awaits of one writer the steps of  *)
(* the others, and reads, can take place.                                  *)
(***************************************************************************)
Writers == {"w1", "w2"}

\* The delete of the upsert, its error dropped by .ok(), with the delete
\* put off to the add (an atomic replace).
UpsertDeleteDeferred(table, memory) == table

\* The delete of the upsert, its error dropped by .ok().
UpsertDelete(table, memory) == TableDelete(table, FormatIdEq(memory.id)).table

\* The add of the upsert: the batch is appended.
UpsertAdd(table, memory, embedding, vector_dim) ==
    Append(table, MemoryToRow(memory, FixedSizeListValue(embedding, vector_dim)))

\* A writer before its call.
WriterIdle == [pc |-> "idle"]

\* What the two writers store: a new memory, or an older one with metadata.
WriterInputs(ids) ==
    UNION {{PlainMemory(id, 0, 0), RichMemory(id, 0, 0)} : id \in ids}

InitUpsert ==
    /\ memories = <<>>
    /\ relationships = <<>>
    /\ stdin = <<>>
    /\ stdout = <<>>
    /\ tasks = [w \in Writers |-> WriterIdle]
    /\ server = NoProvider
    /\ now = 0
    /\ config = StoreConfig
    /\ last = Idle

\* store_memory up to its first commit: the embedding is generated, the batch
\* is built (RecordBatch::try_new fails when the embedding column does not
\* have one row) and the table is opened.
UpsertCall(w, memory, embedding) ==
    /\ tasks[w].pc = "idle"
    /\ tasks' = [tasks EXCEPT ![w] =
          IF FixedSizeListLen(embedding, config.vector_dim) # 1
          THEN [pc |-> "returned", memory |-> memory, embedding |-> embedding,
                ok |-> FALSE, deleted |-> FALSE]
          ELSE [pc |-> "opened", memory |-> memory, embedding |-> embedding,
                ok |-> FALSE, deleted |-> FALSE]]
    /\ last' = [op |-> "store_memory", task |-> w, step |-> "call"]
    /\ UNCHANGED <<server, stdin, stdout, memories, relationships, now, config>>

\* table.delete(id = '...').await.ok()
UpsertDeleteStep(w) ==
    /\ tasks[w].pc = "opened"
    /\ memories' = UpsertDelete(memories, tasks[w].memory)
    /\ tasks' = [tasks EXCEPT ![w].pc = "deleted", ![w].deleted = TRUE]
    /\ last' = [op |-> "store_memory", task |-> w, step |-> "delete"]
    /\ UNCHANGED <<server, stdin, stdout, relationships, now, config>>

\* table.add(batch).execute().await?
UpsertAddStep(w) ==
    /\ tasks[w].pc = "deleted"
    /\ \E add_ok \in AddOutcomes(tasks[w].embedding, config.vector_dim) :
          /\ memories' = IF add_ok
                         THEN UpsertAdd(memories, tasks[w].memory,
                                        tasks[w].embedding, config.vector_dim)
                         ELSE memories
          /\ tasks' = [tasks EXCEPT ![w].pc = "returned", ![w].ok = add_ok]
    /\ last' = [op |-> "store_memory", task |-> w, step |-> "add"]
    /\ UNCHANGED <<server, stdin, stdout, relationships, now, config>>

\* The future of store_memory is dropped while it awaits the delete or the
\* add: what is committed stays, what is not yet started never happens.
UpsertCancel(w) ==
    /\ tasks[w].pc \in {"opened", "deleted"}
    /\ tasks' = [tasks EXCEPT ![w].pc = "cancelled"]
    /\ last' = [op |-> "store_memory", task |-> w, step |-> "cancel"]
    /\ UNCHANGED <<server, stdin, stdout, memories, relationships, now, config>>

NextUpsert ==
    \/ \E w \in Writers, m \in WriterInputs(PlainIds), e \in StoreEmbeddings :
          UpsertCall(w, m, e)
    \/ \E w \in Writers : UpsertDeleteStep(w)
    \/ \E w \in Writers : UpsertAddStep(w)
    \/ \E w \in Writers : UpsertCancel(w)
    \/ \E id \in PlainIds : GetMemory(id)

SpecUpsert == InitUpsert /\ [][NextUpsert]_vars

\* The rows of table with the id.
RowsWithId(table, id) == SelectSeq(table, LAMBDA row : row.id = id)

\* C25: the upsert is not atomic.  Right after the delete step of a writer
\* the id has no row and get_memory of it gives None; when the writer is
\* cancelled after its delete, or its add fails, the table stays as the
\* delete left it: the delete is not undone and the previous version is not
\* put back.
C25_UpsertStep ==
    \A w \in Writers :
        /\ (tasks[w].pc = "opened" /\ tasks'[w].pc = "deleted") =>
              /\ RowsWithId(memories', tasks[w].memory.id) = <<>>
              /\ get_memory(memories', tasks[w].memory.id, now) =
                     {[ok |-> TRUE, value |-> None]}
        /\ (/\ tasks[w].pc = "deleted"
            /\ \/ tasks'[w].pc = "cancelled"
               \/ tasks'[w].pc = "returned" /\ ~ tasks'[w].ok) =>
              memories' = memories

C25_UpsertNotAtomic == [][C25_UpsertStep]_vars

\* w1 stored the id, w2 deleted that row and was then cancelled; the table
\* has no row of the id and a get_memory of it has just answered None.
C25_Witness ==
    /\ tasks["w1"].pc = "returned" /\ tasks["w1"].ok
    /\ tasks["w2"].pc = "cancelled" /\ tasks["w2"].deleted
    /\ tasks["w2"].memory.id = tasks["w1"].memory.id
    /\ RowsWithId(memories, tasks["w1"].memory.id) = <<>>
    /\ last.op = "get_memory"
    /\ last.id = tasks["w1"].memory.id
    /\ last.ok /\ last.value = None

\* C26: when two writers upsert the same id, with embeddings of the store's
\* dimension, neither gets an error, and at the step that completes the
\* second of them the table holds exactly one row of the id, the row that
\* this step appended.
C26_LastWriterStep ==
    \A w \in Writers, v \in Writers :
        (/\ w # v
         /\ tasks[w].pc = "deleted" /\ tasks'[w].pc = "returned"
         /\ tasks[v].pc = "returned"
         /\ tasks[v].memory.id = tasks[w].memory.id
         /\ Len(tasks[w].embedding) = config.vector_dim
         /\ Len(tasks[v].embedding) = config.vector_dim) =>
            /\ tasks'[w].ok /\ tasks[v].ok
            /\ RowsWithId(memories', tasks[w].memory.id) =
                  <<MemoryToRow(tasks[w].memory, tasks[w].embedding)>>

C26_LastWriterWins == [][C26_LastWriterStep]_vars

(***************************************************************************)
(* The type of a relationship, written and read back                       *)
(***************************************************************************)
\* C27: a relationship written by store_relationship is read back by
\* get_memory_relationships, for its source and for its target, with the
\* relationship_type it was written with.
C27_TypeStep ==
    (last'.op = "store_relationship") =>
        \A endpoint \in {last'.relationship.source_id,
                         last'.relationship.target_id} :
            LET r == get_memory_relationships(relationships', endpoint)
            IN  /\ r.ok
                /\ \E i \in 1..Len(r.value) :
                      /\ r.value[i].id = last'.relationship.id
                      /\ r.value[i].relationship_type =
                            last'.relationship.relationship_type

C27_RelationshipTypeRoundTrip == [][C27_TypeStep]_vars

(***************************************************************************)
(* Where the results of hybrid_search come from                            *)
(***************************************************************************)
\* The ids of the memories of a list of results.
ResultIds(results) == {results[i].memory.id : i \in 1..Len(results)}

\* C28: when hybrid_search is given a vector_query or keywords, every memory
\* it returns is among the results of that vector search or of that keyword
\* search; when both searches find nothing, the result is empty.
C28_ResultsComeFromSearches ==
    (/\ last.op = "hybrid_search"
     /\ last.ok
     /\ (last.query.vector_query # None \/ last.query.keywords # None)) =>
        /\ ResultIds(last.results) \subseteq
              ResultIds(LastVectorResults) \cup ResultIds(LastKeywordResults)
        /\ (LastVectorResults = <<>> /\ LastKeywordResults = <<>>) =>
              last.results = <<>>

(***************************************************************************)
(* split_text_with_overlap (knowledge/chunker.rs)                          *)
(*                                                                         *)
(* A text is its sequence of UTF-8 bytes; offsets count bytes from 0, as   *)
(* in the code, so the byte at offset i is text[i + 1].                    *)
(***************************************************************************)
\* The characters of the texts, as bytes: three of one byte and one of two.
TextUnits == {<<"a">>, <<".">>, <<" ">>, <<"C3", "A9">>}

\* The bytes that continue a character.
ContinuationBytes == {"A9"}

\* '.' | '!' | '?'
SentenceEnds == {".", "!", "?"}

\* char::is_whitespace, on the characters of the texts.
IsWhitespace(b) == b = " "

\* The sentence ending is looked for within 100 bytes of the target.
SentenceWindow == 100

\* The texts of the short inputs have at most this many characters.
MaxUnits == 3

\* The iterations of the loop that are followed.
MaxChunks == 5

\* a.saturating_sub(b)
saturating_sub(a, b) == IF a >= b THEN a - b ELSE 0

\* str::is_char_boundary
is_char_boundary(text, idx) ==
    \/ idx = 0
    \/ idx = Len(text)
    \/ idx < Len(text) /\ text[idx + 1] \notin ContinuationBytes

RECURSIVE FloorFrom(_, _)
FloorFrom(text, idx) ==
    IF idx > 0 /\ ~ is_char_boundary(text, idx) THEN FloorFrom(text, idx - 1) ELSE idx

floor_char_boundary(text, idx) == FloorFrom(text, Min2(idx, Len(text)))

RECURSIVE CeilFrom(_, _)
CeilFrom(text, idx) ==
    IF idx < Len(text) /\ ~ is_char_boundary(text, idx) THEN CeilFrom(text, idx + 1) ELSE idx

ceil_char_boundary(text, idx) == CeilFrom(text, Min2(idx, Len(text)))

\* find_sentence_boundary(text, _start, target): the offset after the last
\* sentence ending before target, within the window, that is followed by
\* whitespace; target when there is none.  _start is not used.
find_sentence_boundary(text, target) ==
    LET search_start == floor_char_boundary(text, saturating_sub(target, SentenceWindow))
        search_end == floor_char_boundary(text, Min2(target + SentenceWindow, Len(text)))
        found == {p \in (search_start + 1)..target :
                     /\ text[p] \in SentenceEnds
                     /\ p < search_end
                     /\ IsWhitespace(text[p + 1])}
    IN  IF found = {} THEN target
        ELSE CHOOSE p \in found : \A q \in found : q <= p

\* The end of the chunk that starts at start.
ChunkEnd(text, chunk_size, start) ==
    LET end == floor_char_boundary(text, Min2(start + chunk_size, Len(text)))
        chunk_end == IF end < Len(text) THEN find_sentence_boundary(text, end) ELSE end
    IN  IF chunk_end <= start THEN ceil_char_boundary(text, start + 1) ELSE chunk_end

\* The start of the next chunk, the overlap taken back from the end of this
\* one.
NextStart(text, chunk_overlap, chunk_end) ==
    floor_char_boundary(text, saturating_sub(chunk_end, chunk_overlap))

RECURSIVE Flatten(_)
Flatten(units) ==
    IF units = <<>> THEN <<>> ELSE Head(units) \o Flatten(Tail(units))

Repeat(b, n) == [i \in 1..n |-> b]

\* The texts split: every short text, the text of test_chunk_overlap, and a
\* long text whose only sentence ends early.
ChunkTexts ==
    {Flatten(us) : us \in SeqsUpTo(TextUnits, MaxUnits)}
    \cup {Repeat("a", 250),
          Repeat("a", 9) \o <<".", " ">> \o Repeat("a", 200)}

\* chunk_size and chunk_overlap, with 0 <= chunk_overlap < chunk_size.
ChunkConfigs == {<<100, 20>>, <<3, 1>>, <<2, 1>>, <<2, 0>>, <<1, 0>>}

InitSplit ==
    /\ memories = <<>>
    /\ relationships = <<>>
    /\ stdin = <<>>
    /\ stdout = <<>>
    /\ tasks = NoTasks
    /\ server = NoProvider
    /\ now = 0
    /\ config = StoreConfig
    /\ \E text \in ChunkTexts, c \in ChunkConfigs :
          last = [op |-> "split_text_with_overlap", text |-> text,
                  chunk_size |-> c[1], chunk_overlap |-> c[2],
                  start |-> 0, chunks |-> <<>>, pc |-> "while"]

\* One iteration of the loop: a chunk is pushed, and the loop is left when
\* the chunk reaches the end of the text.
SplitIteration ==
    /\ last.op = "split_text_with_overlap"
    /\ last.pc = "while"
    /\ last.start < Len(last.text)
    /\ Len(last.chunks) < MaxChunks
    /\ LET chunk_end == ChunkEnd(last.text, last.chunk_size, last.start)
       IN  last' = [last EXCEPT
                !.chunks = Append(@, SubSeq(last.text, last.start + 1, chunk_end)),
                !.pc = IF chunk_end >= Len(last.text) THEN "returned" ELSE "while",
                !.start = IF chunk_end >= Len(last.text) THEN last.start
                          ELSE NextStart(last.text, last.chunk_overlap, chunk_end)]
    /\ UNCHANGED <<tasks, server, stdin, stdout, memories, relationships, now, config>>

\* The loop test fails: the chunks are returned.
SplitReturn ==
    /\ last.op = "split_text_with_overlap"
    /\ last.pc = "while"
    /\ last.start >= Len(last.text)
    /\ last' = [last EXCEPT !.pc = "returned"]
    /\ UNCHANGED <<tasks, server, stdin, stdout, memories, relationships, now, config>>

NextSplit == SplitIteration \/ SplitReturn

SpecSplit == InitSplit /\ [][NextSplit]_vars

\* C29: every iteration of the loop of split_text_with_overlap either ends
\* the loop or moves start strictly forward, and the number of chunks never
\* exceeds the length of the text.
C29_IterationStep ==
    (last.pc = "while" /\ Len(last'.chunks) > Len(last.chunks)) =>
        /\ (last'.pc = "returned" \/ last'.start > last.start)
        /\ Len(last'.chunks) <= Len(last.text)

C29_SplitTerminates == [][C29_IterationStep]_vars

(***************************************************************************)
(* get_or_init_memory (mcp/server.rs)                                      *)
(*                                                                         *)
(* Callers are concurrent calls of get_or_init_memory on one McpServer.    *)
(* The await points are the two lock().await and MemoryProvider::new, the  *)
(* latter awaited with the guard of the second lock held.                  *)
(***************************************************************************)
Callers == {"c1", "c2", "c3"}

\* The providers MemoryProvider::new may build in one run.
MaxBuilt == 2

\* A caller before its call.
CallerIdle == [pc |-> "idle", result |-> None]

\* The second look at the slot, left out.
SlotUnderSecondLockSkipped(slot) == None

\* The second look at the slot, under the second lock: guard.as_ref().
SlotUnderSecondLock(slot) == slot

InitProvider ==
    /\ memories = <<>>
    /\ relationships = <<>>
    /\ stdin = <<>>
    /\ stdout = <<>>
    /\ tasks = [c \in Callers |-> CallerIdle]
    /\ server = NoProvider
    /\ now = 0
    /\ config = StoreConfig
    /\ last = Idle

\* get_or_init_memory is called, for the first time or again after a
\* return; the call waits for the first lock.
GetOrInitCall(c) ==
    /\ tasks[c].pc \in {"idle", "returned"}
    /\ tasks' = [tasks EXCEPT ![c] = [pc |-> "lock1", result |-> None]]
    /\ last' = [op |-> "get_or_init_memory", task |-> c, step |-> "call"]
    /\ UNCHANGED <<server, stdin, stdout, memories, relationships, now, config>>

\* The first block: the lock is taken, a provider found in the slot is
\* cloned and returned, and the guard is dropped at the end of the block.
FirstCheck(c) ==
    /\ tasks[c].pc = "lock1"
    /\ server.lock = None
    /\ tasks' = [tasks EXCEPT ![c] =
          IF IsSome(server.memory)
          THEN [pc |-> "returned",
                result |-> Some([ok |-> TRUE, provider |-> Unwrap(server.memory)])]
          ELSE [pc |-> "lock2", result |-> None]]
    /\ last' = [op |-> "get_or_init_memory", task |-> c, step |-> "first"]
    /\ UNCHANGED <<server, stdin, stdout, memories, relationships, now, config>>

\* The second lock is taken and the slot looked at again: a provider found
\* is cloned and returned; otherwise MemoryProvider::new is started, the
\* guard held while it is awaited.
SecondCheck(c) ==
    /\ tasks[c].pc = "lock2"
    /\ server.lock = None
    /\ LET slot == SlotUnderSecondLock(server.memory)
       IN  IF IsSome(slot)
           THEN /\ tasks' = [tasks EXCEPT ![c] =
                      [pc |-> "returned",
                       result |-> Some([ok |-> TRUE, provider |-> Unwrap(slot)])]]
                /\ server' = server
           ELSE /\ tasks' = [tasks EXCEPT ![c].pc = "new"]
                /\ server' = [server EXCEPT !.lock = Some(c)]
    /\ last' = [op |-> "get_or_init_memory", task |-> c, step |-> "second"]
    /\ UNCHANGED <<stdin, stdout, memories, relationships, now, config>>

\* MemoryProvider::new returns Ok: the provider is put in the slot, a clone
\* is returned and the guard is dropped.
NewSucceeds(c) ==
    /\ tasks[c].pc = "new"
    /\ server.built < MaxBuilt
    /\ server' = [memory |-> Some(server.built + 1), lock |-> None,
                  built |-> server.built + 1]
    /\ tasks' = [tasks EXCEPT ![c] =
          [pc |-> "returned",
           result |-> Some([ok |-> TRUE, provider |-> server.built + 1])]]
    /\ last' = [op |-> "get_or_init_memory", task |-> c, step |-> "new_ok"]
    /\ UNCHANGED <<stdin, stdout, memories, relationships, now, config>>

\* MemoryProvider::new returns Err: `?` returns it, the guard is dropped
\* and the slot is left as it is.
NewFails(c) ==
    /\ tasks[c].pc = "new"
    /\ server' = [server EXCEPT !.lock = None]
    /\ tasks' = [tasks EXCEPT ![c] =
          [pc |-> "returned", result |-> Some([ok |-> FALSE, provider |-> 0])]]
    /\ last' = [op |-> "get_or_init_memory", task |-> c, step |-> "new_err"]
    /\ UNCHANGED <<stdin, stdout, memories, relationships, now, config>>

NextProvider ==
    \/ \E c \in Callers : GetOrInitCall(c)
    \/ \E c \in Callers : FirstCheck(c)
    \/ \E c \in Callers : SecondCheck(c)
    \/ \E c \in Callers : NewSucceeds(c)
    \/ \E c \in Callers : NewFails(c)

SpecProvider == InitProvider /\ [][NextProvider]_vars

\* C30: over every interleaving of the calls, MemoryProvider::new succeeds at
\* most once and every call that returned Ok holds the provider that is in
\* the slot; when MemoryProvider::new fails the slot stays empty and the
\* caller gets the error; and a call that finds the slot empty under the
\* second lock, after a failure or not, starts MemoryProvider::new.
C30_ProviderStep ==
    /\ server'.built <= 1
    /\ \A c \in Callers :
          (tasks'[c].pc = "returned" /\ Unwrap(tasks'[c].result).ok) =>
              server'.memory = Some(Unwrap(tasks'[c].result).provider)
    /\ \A c \in Callers :
          /\ (/\ tasks[c].pc = "new" /\ tasks'[c].pc = "returned"
              /\ server'.built = server.built) =>
                 /\ ~ Unwrap(tasks'[c].result).ok
                 /\ server'.memory = None
          /\ (/\ tasks[c].pc = "lock2" /\ tasks'[c].pc # "lock2"
              /\ server.memory = None) =>
                 tasks'[c].pc = "new"

C30_InitializedOnce == [][C30_ProviderStep]_vars

\* c1's MemoryProvider::new failed and c1 got the error; the later attempt
\* of c2 built the provider, and c3 was handed a clone of it.
C30_Witness ==
    /\ tasks["c1"].pc = "returned" /\ ~ Unwrap(tasks["c1"].result).ok
    /\ tasks["c2"].pc = "returned" /\ Unwrap(tasks["c2"].result).ok
    /\ tasks["c3"].pc = "returned" /\ Unwrap(tasks["c3"].result).ok
    /\ last.task = "c3" /\ last.step \in {"first", "second"}
    /\ server = [memory |-> Some(1), lock |-> None, built |-> 1]

====
